---- MODULE Spec2Model ----
(***************************************************************************)
(* Model of the conversation-aware grant retrieval pipeline of ask-ailsa:  *)
(* hit aggregation, semantic boosting, tiering and diversity selection     *)
(* (src/api/server.py, scripts/debug/fix_diversity.py), eligibility and    *)
(* fit scoring (backend/eligibility_filter.py), the conversation store     *)
(* (backend/conversation_manager.py) and the search() turn                 *)
(* (backend/enhanced_search.py).                                           *)
(*                                                                         *)
(* Text is a sequence of one-character strings, so that Python's           *)
(* substring test, lower() and split() are computed as the code computes   *)
(* them.  Scores are fixed-point integers; the unit is stated where a      *)
(* score is introduced.                                                    *)
(***************************************************************************)
EXTENDS Integers, Sequences, FiniteSets, TLC

(* the arguments and the result of one call of a selector *)
VARIABLES selHits, selOp, selQuery, selN, selActive, selWeight, selOut

(* the arguments and the result of one call of the eligibility engine *)
VARIABLES eligProfile, eligIds, eligOp, eligOut

(* the arguments and the result of one call of _filter_grants_by_name *)
VARIABLES nameGrants, nameKeyword, nameTopK, nameOp, nameOut

(* EnhancedGrantSearch: the sessions of its conversation manager, whether a *)
(* vector index is configured and what it answers, the arguments the        *)
(* client passes to search() and what the last search() turn computed       *)
VARIABLES conversations, vector_index, index_ranking, client, turn

(* one /chat/stream response: the position of its generator, the events     *)
(* sent to the client, the chunks the language model has produced, the hits *)
(* of the request and how the response ended                                *)
VARIABLES streamPc, streamSent, streamProduced, streamHits, streamOutcome

(* two search() calls on one session that overlap: the session store before *)
(* them, the session store now, and each call's position and local values   *)
VARIABLES raceStart, raceConversations, raceCalls

selVars == <<selHits, selOp, selQuery, selN, selActive, selWeight, selOut>>

eligVars == <<eligProfile, eligIds, eligOp, eligOut>>

nameVars == <<nameGrants, nameKeyword, nameTopK, nameOp, nameOut>>

searchVars == <<conversations, vector_index, index_ranking, client, turn>>

streamVars == <<streamPc, streamSent, streamProduced, streamHits, streamOutcome>>

raceVars == <<raceStart, raceConversations, raceCalls>>

vars == <<selVars, eligVars, nameVars, searchVars, streamVars, raceVars>>

(* no selector call in progress *)
SelIdle ==
    /\ selHits = <<>>
    /\ selOp = "none"
    /\ selQuery = <<>>
    /\ selN = 0
    /\ selActive = FALSE
    /\ selWeight = 0
    /\ selOut = <<>>

(* no eligibility call in progress *)
EligIdle ==
    /\ eligProfile = <<>>
    /\ eligIds = <<>>
    /\ eligOp = "none"
    /\ eligOut = <<>>

(* no name-filter call in progress *)
NameIdle ==
    /\ nameGrants = <<>>
    /\ nameKeyword = <<>>
    /\ nameTopK = 0
    /\ nameOp = "none"
    /\ nameOut = <<>>

(* no /chat/stream request in progress *)
StreamIdle ==
    /\ streamPc = "idle"
    /\ streamSent = <<>>
    /\ streamProduced = <<>>
    /\ streamHits = <<>>
    /\ streamOutcome = "none"

(* no overlapping calls in progress *)
RaceIdle ==
    /\ raceStart = <<>>
    /\ raceConversations = <<>>
    /\ raceCalls = <<>>

NoIndex == [raises |-> FALSE, hits |-> <<>>]

(* no search engine constructed *)
SearchIdle ==
    /\ conversations = <<>>
    /\ vector_index = FALSE
    /\ index_ranking = NoIndex
    /\ client = <<>>
    /\ turn = <<>>

-----------------------------------------------------------------------------
(* Text helpers: str.lower(), "p in s", str.startswith(), str.split()      *)

(* a list built element by element, as a sequence *)
List(f) == f \o <<>>

(* a table computed once, as an explicit function *)
Table(f) == f @@ <<>>

Range(s) == {s[i] : i \in 1..Len(s)}

UpperCase == <<"A","B","C","D","E","F","G","H","I","J","K","L","M","N","O","P","Q","R","S","T","U","V","W","X","Y","Z">>

LowerCase == <<"a","b","c","d","e","f","g","h","i","j","k","l","m","n","o","p","q","r","s","t","u","v","w","x","y","z">>

(* the lower-case letter of every upper-case letter *)
LowerTable == Table([c \in Range(UpperCase) |-> LowerCase[CHOOSE i \in 1..26 : UpperCase[i] = c]])

LowerChar(c) == IF c \in DOMAIN LowerTable THEN LowerTable[c] ELSE c

Lower(s) == List([i \in 1..Len(s) |-> LowerChar(s[i])])

Contains(s, p) ==
    \E i \in 0..(Len(s) - Len(p)) : SubSeq(s, i + 1, i + Len(p)) = p

StartsWith(s, p) == Len(p) <= Len(s) /\ SubSeq(s, 1, Len(p)) = p

RECURSIVE Split(_)
Split(s) ==
    IF s = <<>> THEN <<>>
    ELSE IF s[1] = " " THEN Split(Tail(s))
    ELSE LET stops == {i \in 1..Len(s) : s[i] = " "}
             n == IF stops = {} THEN Len(s)
                  ELSE (CHOOSE i \in stops : \A j \in stops : i <= j) - 1
         IN <<SubSeq(s, 1, n)>> \o Split(SubSeq(s, n + 1, Len(s)))

Min(a, b) == IF a <= b THEN a ELSE b

Max(a, b) == IF a >= b THEN a ELSE b

(* F applied to the value of x, which is computed once *)
Bind(x, F(_)) == CHOOSE y \in {F(v) : v \in {x}} : TRUE

(* the Python slice s[:n]; a negative n drops the last -n elements *)
Take(s, n) ==
    IF n >= 0 THEN SubSeq(s, 1, Min(n, Len(s)))
    ELSE SubSeq(s, 1, Max(Len(s) + n, 0))

(* the Python slice s[-n:] for n > 0 *)
LastN(s, n) == SubSeq(s, Max(Len(s) - n, 0) + 1, Len(s))

(* list.sort(key=lambda x: x[field], reverse=True): stable, descending *)
SortDesc(s, field) ==
    LET t == List(s)
        n == Len(t)
        key == List([i \in 1..n |-> t[i][field]])
        pos == List([i \in 1..n |->
                       Cardinality({j \in 1..n : key[j] > key[i]})
                       + Cardinality({j \in 1..(i - 1) : key[j] = key[i]}) + 1])
    IN List([p \in 1..n |-> t[CHOOSE i \in 1..n : pos[i] = p]])

(* order of first appearance of the values F(s[i]): dict insertion order *)
RECURSIVE FirstSeen(_)
FirstSeen(s) ==
    IF s = <<>> THEN <<>>
    ELSE LET r == FirstSeen(SubSeq(s, 1, Len(s) - 1))
             x == s[Len(s)]
         IN IF x \in Range(r) THEN r ELSE Append(r, x)

-----------------------------------------------------------------------------
(* The grant repository (external collaborator): a fixed table of records. *)

NoId == "none"

GrantIds == {"g1", "g2", "g3", "g4", "g5", "g6", "g7", "g8", "g9", "g10"}

UnknownId == "gx"

SourceA == "innovate_uk"

SourceB == "nihr"

Repo ==
    Table([g \in GrantIds |->
       CASE g = "g1" -> [id |-> "g1", title |-> <<"B","i","o","m","e","d","i","c","a","l"," ","C","a","t","a","l","y","s","t"," ","R","o","u","n","d"," ","1">>,
                         source |-> SourceA, is_active |-> TRUE, closes_at |-> "future",
                         total_fund_gbp |-> 500,
                         description |-> <<"f","o","r"," ","s","m","e"," ","w","i","t","h"," ","p","a","r","t","n","e","r","s","h","i","p"," ","i","n"," ","b","i","o","m","e","d","i","c","a","l">>]
         [] g = "g2" -> [id |-> "g2", title |-> <<"B","i","o","m","e","d","i","c","a","l"," ","C","a","t","a","l","y","s","t"," ","R","o","u","n","d"," ","2">>,
                         source |-> SourceA, is_active |-> TRUE, closes_at |-> "none",
                         total_fund_gbp |-> 3000,
                         description |-> <<"i","n","d","u","s","t","r","y"," ","o","n","l","y"," ","m","a","r","k","e","t"," ","l","a","u","n","c","h">>]
         [] g = "g3" -> [id |-> "g3", title |-> <<"B","i","o","m","e","d","i","c","a","l"," ","C","a","t","a","l","y","s","t"," ","R","o","u","n","d"," ","3">>,
                         source |-> SourceA, is_active |-> TRUE, closes_at |-> "future",
                         total_fund_gbp |-> 0,
                         description |-> <<"u","n","i","v","e","r","s","i","t","y"," ","p","a","r","t","n","e","r","s","h","i","p"," ","d","i","g","i","t","a","l"," ","h","e","a","l","t","h">>]
         [] g = "g4" -> [id |-> "g4", title |-> <<"A","I"," ","f","o","r"," ","C","a","n","c","e","r"," ","T","h","e","r","a","p","y">>,
                         source |-> SourceB, is_active |-> TRUE, closes_at |-> "future",
                         total_fund_gbp |-> 1500,
                         description |-> <<"l","a","r","g","e"," ","c","o","m","p","a","n","i","e","s"," ","o","n","l","y">>]
         [] g = "g5" -> [id |-> "g5", title |-> <<"C","h","i","l","d","r","e","n"," ","H","e","a","l","t","h"," ","R","e","s","e","a","r","c","h"," ","P","r","o","g","r","a","m","m","e">>,
                         source |-> SourceB, is_active |-> TRUE, closes_at |-> "none",
                         total_fund_gbp |-> 900,
                         description |-> <<"c","o","m","m","e","r","c","i","a","l"," ","r","e","a","d","i","n","e","s","s"," ","e","a","r","l","y"," ","s","t","a","g","e">>]
         [] g = "g6" -> [id |-> "g6", title |-> <<"S","m","a","r","t"," ","G","r","a","n","t","s"," ","S","p","r","i","n","g">>,
                         source |-> SourceA, is_active |-> TRUE, closes_at |-> "none",
                         total_fund_gbp |-> 100,
                         description |-> <<>>]
         [] g = "g7" -> [id |-> "g7", title |-> <<"M","e","n","t","a","l"," ","H","e","a","l","t","h"," ","R","e","s","e","a","r","c","h"," ","G","r","o","u","p","s">>,
                         source |-> SourceB, is_active |-> FALSE, closes_at |-> "future",
                         total_fund_gbp |-> 800,
                         description |-> <<"s","m","e"," ","b","i","o","m","e","d","i","c","a","l">>]
         [] g = "g8" -> [id |-> "g8", title |-> <<"K","n","o","w","l","e","d","g","e"," ","T","r","a","n","s","f","e","r"," ","N","e","t","w","o","r","k">>,
                         source |-> SourceA, is_active |-> TRUE, closes_at |-> "past",
                         total_fund_gbp |-> 2000,
                         description |-> <<"c","o","m","m","e","r","c","i","a","l"," ","o","n","l","y">>]
         [] g = "g9" -> [id |-> "g9", title |-> <<"A","I"," ","i","n"," ","H","e","a","l","t","h","c","a","r","e"," ","F","u","n","d">>,
                         source |-> SourceB, is_active |-> TRUE, closes_at |-> "none",
                         total_fund_gbp |-> 700,
                         description |-> <<"t","o","o","l","s"," ","f","o","r"," ","c","l","i","n","i","c","s">>]
         [] g = "g10" -> [id |-> "g10", title |-> <<"H","e","a","l","t","h","c","a","r","e"," ","A","I"," ","A","c","c","e","l","e","r","a","t","o","r">>,
                          source |-> SourceB, is_active |-> TRUE, closes_at |-> "none",
                          total_fund_gbp |-> 1200,
                          description |-> <<>>]])

(* grant_store.get_grant(gid): the record, or nothing for an unknown id *)
HasGrant(gid) == gid \in GrantIds

(* row order of get_grants_by_ids: ORDER BY status rank, close_date ASC NULLS LAST *)
RepoOrder == <<"g8", "g1", "g3", "g4", "g2", "g5", "g6", "g9", "g10", "g7">>

-----------------------------------------------------------------------------
(* Scores.  A retriever hit carries its score in hundredths (0..100).  The  *)
(* boosted score of server.py is held in units of 1/6250000, in which the   *)
(* factors 1.12 = 28/25, 1.08 = 27/25 and 1.10 = 11/10 (applied at most     *)
(* once each, AI and paediatrics both 11/10) are exact.                     *)

ScoreUnit == 25 * 25 * 10 * 10

Base(pct) == pct * ScoreUnit

MIN_SCORE_STRONG == 55

(* defined next to MIN_SCORE_STRONG; no code reads it *)
MIN_SCORE_WEAK == 48

MAX_GRANTS == 5

MIN_SCORE_THRESHOLD == 40

(* "p in text.lower()", tabulated once for the texts and literals of the model *)
BoostLiterals ==
    {<<"c","a","n","c","e","r">>, <<"o","n","c","o","l","o","g">>, <<"t","h","e","r","a","p">>, <<"t","r","e","a","t","m","e","n","t">>, <<"p","a","e","d","i","a","t","r">>, <<"p","e","d","i","a","t","r">>,
     <<"c","h","i","l","d","r","e","n">>, <<"c","h","i","l","d">>, <<"a","i">>, <<"a","r","t","i","f","i","c","i","a","l"," ","i","n","t","e","l","l","i","g","e","n","c","e">>, <<"l","l","m">>, <<"a","g","e","n","t","i","c">>,
     <<"s","m","a","r","t"," ","g","r","a","n","t">>, <<"s","m","a","r","t"," ","g","r","a","n","t","s">>}

Q_ai == <<"A","I"," ","f","u","n","d","i","n","g"," ","f","o","r"," ","h","e","a","l","t","h","c","a","r","e">>

Q_nihr == <<"s","h","o","w"," ","m","e"," ","N","I","H","R"," ","g","r","a","n","t","s"," ","f","o","r"," ","c","l","i","n","i","c","a","l"," ","t","r","i","a","l","s">>

Q_cancer == <<"A","I"," ","f","o","r"," ","c","a","n","c","e","r"," ","t","h","e","r","a","p","y">>

SelQueries == {Q_ai, Q_nihr}

(* the queries of the boost scenario *)
BoostQueries == {Q_ai, Q_cancer}

Titles == {Repo[g].title : g \in GrantIds}

BoostTable ==
    Table([text \in SelQueries \cup BoostQueries \cup Titles |->
              Table([p \in BoostLiterals |-> Contains(Lower(text), p)])])

LowerHas(text, p) == BoostTable[text][p]

LowerHasAny(text, ps) == \E p \in ps : LowerHas(text, p)

(* mutant: only the first matching topic is applied *)
apply_semantic_boost_first_only(query, title, base_score) ==
    IF LowerHasAny(query, {<<"c","a","n","c","e","r">>, <<"o","n","c","o","l","o","g">>}) /\ LowerHasAny(title, {<<"c","a","n","c","e","r">>, <<"o","n","c","o","l","o","g">>})
    THEN (base_score * 28) \div 25
    ELSE IF LowerHas(query, <<"t","h","e","r","a","p">>) /\ LowerHasAny(title, {<<"t","h","e","r","a","p">>, <<"t","r","e","a","t","m","e","n","t">>})
    THEN (base_score * 27) \div 25
    ELSE IF LowerHasAny(query, {<<"p","a","e","d","i","a","t","r">>, <<"p","e","d","i","a","t","r">>})
            /\ LowerHasAny(title, {<<"p","a","e","d","i","a","t","r">>, <<"p","e","d","i","a","t","r">>, <<"c","h","i","l","d","r","e","n">>, <<"c","h","i","l","d">>})
    THEN (base_score * 11) \div 10
    ELSE IF LowerHasAny(query, {<<"a","i">>, <<"a","r","t","i","f","i","c","i","a","l"," ","i","n","t","e","l","l","i","g","e","n","c","e">>, <<"l","l","m">>, <<"a","g","e","n","t","i","c">>})
            /\ LowerHasAny(title, {<<"a","i">>, <<"a","r","t","i","f","i","c","i","a","l"," ","i","n","t","e","l","l","i","g","e","n","c","e">>, <<"a","g","e","n","t","i","c">>, <<"l","l","m">>})
    THEN (base_score * 11) \div 10
    ELSE base_score

apply_semantic_boost(query, title, base_score) ==
    LET s1 == IF LowerHasAny(query, {<<"c","a","n","c","e","r">>, <<"o","n","c","o","l","o","g">>})
                 /\ LowerHasAny(title, {<<"c","a","n","c","e","r">>, <<"o","n","c","o","l","o","g">>})
              THEN (base_score * 28) \div 25 ELSE base_score
        s2 == IF LowerHas(query, <<"t","h","e","r","a","p">>)
                 /\ LowerHasAny(title, {<<"t","h","e","r","a","p">>, <<"t","r","e","a","t","m","e","n","t">>})
              THEN (s1 * 27) \div 25 ELSE s1
        s3 == IF LowerHasAny(query, {<<"p","a","e","d","i","a","t","r">>, <<"p","e","d","i","a","t","r">>})
                 /\ LowerHasAny(title, {<<"p","a","e","d","i","a","t","r">>, <<"p","e","d","i","a","t","r">>, <<"c","h","i","l","d","r","e","n">>, <<"c","h","i","l","d">>})
              THEN (s2 * 11) \div 10 ELSE s2
        s4 == IF LowerHasAny(query, {<<"a","i">>, <<"a","r","t","i","f","i","c","i","a","l"," ","i","n","t","e","l","l","i","g","e","n","c","e">>, <<"l","l","m">>, <<"a","g","e","n","t","i","c">>})
                 /\ LowerHasAny(title, {<<"a","i">>, <<"a","r","t","i","f","i","c","i","a","l"," ","i","n","t","e","l","l","i","g","e","n","c","e">>, <<"a","g","e","n","t","i","c">>, <<"l","l","m">>})
              THEN (s3 * 11) \div 10 ELSE s3
    IN s4

-----------------------------------------------------------------------------
(* Aggregation of hits by grant id (defaultdict(list) keyed by grant_id).   *)

(* keys of by_grant in insertion order; hits with a falsy grant_id skipped *)
by_grant_keys(hits) ==
    LET keyed == SelectSeq(hits, LAMBDA h : h.grant_id # NoId)
    IN FirstSeen(List([i \in 1..Len(keyed) |-> keyed[i].grant_id]))

by_grant(hits, gid) == SelectSeq(hits, LAMBDA h : h.grant_id = gid)

(* mutant: the score of the first hit of the group instead of the best *)
best_score_of_first(group) == group[1].score

(* max(group, key=lambda x: x.score).score *)
best_score_of(group) ==
    CHOOSE s \in {group[i].score : i \in 1..Len(group)} :
        \A i \in 1..Len(group) : group[i].score <= s

(* the items list of select_top_grants: one dict per resolvable grant id *)
RECURSIVE build_items(_, _, _)
build_items(keys, hits, query) ==
    IF keys = <<>> THEN <<>>
    ELSE LET gid == keys[1]
             rest == build_items(Tail(keys), hits, query)
         IN IF ~HasGrant(gid) THEN rest
            ELSE <<[grant_id |-> gid,
                    title |-> Repo[gid].title,
                    source |-> Repo[gid].source,
                    status |-> IF Repo[gid].is_active THEN "open" ELSE "closed",
                    closes_at |-> Repo[gid].closes_at,
                    best_score |-> apply_semantic_boost(query, Repo[gid].title,
                                       Base(best_score_of(by_grant(hits, gid))))]>>
                 \o rest

(* is_open: the status, replaced by "deadline > now" when a deadline exists *)
is_open(item) ==
    IF item.closes_at # "none" THEN item.closes_at = "future"
    ELSE item.status = "open"

open_grants_of(items, threshold) ==
    SortDesc(SelectSeq(items, LAMBDA it : it.best_score >= threshold /\ is_open(it)), "best_score")

closed_grants_of(items, threshold) ==
    SortDesc(SelectSeq(items, LAMBDA it : it.best_score >= threshold /\ ~is_open(it)), "best_score")

(* mutant: the open grants are not cut to MAX_GRANTS *)
select_top_grants_uncapped(hits, query) ==
    LET items == build_items(by_grant_keys(hits), hits, query)
        open_grants == open_grants_of(items, Base(MIN_SCORE_STRONG))
        closed_grants == closed_grants_of(items, Base(MIN_SCORE_STRONG))
    IN IF Len(open_grants) < 3 /\ closed_grants # <<>>
       THEN open_grants \o Take(closed_grants, 2)
       ELSE open_grants

(* mutant: the closed grants are put in front of the open ones *)
select_top_grants_closed_first(hits, query) ==
    LET items == build_items(by_grant_keys(hits), hits, query)
        open_grants == open_grants_of(items, Base(MIN_SCORE_STRONG))
        closed_grants == closed_grants_of(items, Base(MIN_SCORE_STRONG))
        relevant == Take(open_grants, MAX_GRANTS)
    IN IF Len(relevant) < 3 /\ closed_grants # <<>>
       THEN Take(Take(closed_grants, 2) \o relevant, MAX_GRANTS)
       ELSE relevant

select_top_grants(hits, query) ==
    LET items == build_items(by_grant_keys(hits), hits, query)
        open_grants == open_grants_of(items, Base(MIN_SCORE_STRONG))
        closed_grants == closed_grants_of(items, Base(MIN_SCORE_STRONG))
        relevant == Take(open_grants, MAX_GRANTS)
    IN IF Len(relevant) < 3 /\ closed_grants # <<>>
       THEN Take(relevant \o Take(closed_grants, 2), MAX_GRANTS)
       ELSE relevant

(* group_results_by_grant: score is the raw maximum, in hundredths *)
RECURSIVE build_groups(_, _)
build_groups(keys, hits) ==
    IF keys = <<>> THEN <<>>
    ELSE LET gid == keys[1]
             rest == build_groups(Tail(keys), hits)
         IN IF ~HasGrant(gid) THEN rest
            ELSE <<[grant_id |-> gid,
                    score |-> best_score_of(by_grant(hits, gid)),
                    title |-> Repo[gid].title,
                    source |-> Repo[gid].source,
                    is_active |-> Repo[gid].is_active]>> \o rest

group_results_by_grant(hits, max_grants) ==
    Take(SortDesc(build_groups(by_grant_keys(hits), hits), "score"), max_grants)

-----------------------------------------------------------------------------
(* Greedy diversity selection (fix_diversity.py).  diversity_weight is in   *)
(* thousandths; 0.5 * weight and 0.3 * weight in score units are            *)
(* weight * 3125 and weight * 1875.  A call either returns a list or raises *)
(* KeyError when a candidate has no 'boosted_score' key.                    *)

DIVERSITY_WEIGHT == 150

(* the weights a caller passes: none, the default, and the documented       *)
(* maximum 1.0                                                              *)
DiversityWeights == {0, DIVERSITY_WEIGHT, 1000}

Returned(list) == [raised |-> FALSE, value |-> list]

Raised == [raised |-> TRUE, value |-> <<>>]

RemoveAt(s, i) == SubSeq(s, 1, i - 1) \o SubSeq(s, i + 1, Len(s))

(* set(title.lower().split()), tabulated once for the titles of the model *)
TitleWordsTable == Table([title \in Titles |-> Range(Split(Lower(title)))])

title_words(title) == TitleWordsTable[title]

(* mutant: the title-overlap penalty is left out *)
diversity_penalty_source_only(candidate, selected, diversity_weight) ==
    Cardinality({j \in 1..Len(selected) : candidate.source = selected[j].source})
        * diversity_weight * 3125

(* penalty of one candidate against the items selected so far *)
diversity_penalty(candidate, selected, diversity_weight) ==
    LET same_source == {j \in 1..Len(selected) : candidate.source = selected[j].source}
        words == title_words(candidate.title)
        overlapping ==
            {j \in 1..Len(selected) :
                2 * Cardinality(words \cap title_words(selected[j].title))
                    > Max(Cardinality(words), 1)}
    IN Cardinality(same_source) * diversity_weight * 3125
       + Cardinality(overlapping) * diversity_weight * 1875

adjusted_score(candidate, selected, diversity_weight) ==
    candidate.boosted_score - diversity_penalty(candidate, selected, diversity_weight)

(* best_idx: the first index whose adjusted score is strictly above every   *)
(* earlier one and above the initial best_adjusted_score of -1; index 1     *)
(* (Python 0) when none is above -1                                         *)
best_index(remaining, selected, diversity_weight) ==
    LET adj(i) == adjusted_score(remaining[i], selected, diversity_weight)
        above == {i \in 1..Len(remaining) : adj(i) > -Base(100)}
    IN IF above = {} THEN 1
       ELSE CHOOSE i \in above :
                /\ \A j \in above : adj(j) <= adj(i)
                /\ \A j \in above : j < i => adj(j) < adj(i)

RECURSIVE diversity_loop(_, _, _, _)
diversity_loop(selected, remaining, max_grants, diversity_weight) ==
    IF ~(Len(selected) < max_grants /\ remaining # <<>>) THEN Returned(selected)
    ELSE IF selected = <<>>
    THEN diversity_loop(<<remaining[1]>>, Tail(remaining), max_grants, diversity_weight)
    ELSE IF \E i \in 1..Len(remaining) : "boosted_score" \notin DOMAIN remaining[i]
    THEN Raised
    ELSE LET i == best_index(remaining, selected, diversity_weight)
         IN diversity_loop(Append(selected, remaining[i]), RemoveAt(remaining, i),
                           max_grants, diversity_weight)

add_diversity_to_grants(grant_scores, max_grants, diversity_weight) ==
    IF grant_scores = <<>> \/ max_grants <= 0 THEN Returned(<<>>)
    ELSE diversity_loop(<<>>, grant_scores, max_grants, diversity_weight)

is_smart_grant(item) ==
    LowerHasAny(item.title, {<<"s","m","a","r","t"," ","g","r","a","n","t">>, <<"s","m","a","r","t"," ","g","r","a","n","t","s">>})

improved_group_results_by_grant(hits, query, max_grants) ==
    LET items == SelectSeq(build_items(by_grant_keys(hits), hits, query),
                           LAMBDA it : ~is_smart_grant(it))
        open_sorted == open_grants_of(items, Base(MIN_SCORE_THRESHOLD))
        closed_grants == closed_grants_of(items, Base(MIN_SCORE_THRESHOLD))
        diverse == add_diversity_to_grants(open_sorted, max_grants, DIVERSITY_WEIGHT)
        result == Take(diverse.value, max_grants)
    IN IF diverse.raised THEN Raised
       ELSE IF Len(result) < max_grants
       THEN Returned(result \o Take(closed_grants, max_grants - Len(result)))
       ELSE Returned(result)

(* adaptive_threshold_group_results: the conservative threshold, the one   *)
(* it falls back to, and the number of open grants below which it does      *)
ADAPTIVE_THRESHOLD == 50

ADAPTIVE_FALLBACK == 35

ADAPTIVE_MIN_OPEN == 2

(* mutant: the threshold is never lowered *)
adaptive_partitions_fixed(items) ==
    [threshold |-> ADAPTIVE_THRESHOLD,
     open_grants |-> open_grants_of(items, Base(ADAPTIVE_THRESHOLD)),
     closed_grants |-> closed_grants_of(items, Base(ADAPTIVE_THRESHOLD))]

(* the open and closed lists of adaptive_threshold_group_results after its  *)
(* one or two filtering passes, sorted                                      *)
adaptive_partitions(items) ==
    LET first_open == open_grants_of(items, Base(ADAPTIVE_THRESHOLD))
        threshold == IF Len(first_open) < ADAPTIVE_MIN_OPEN THEN ADAPTIVE_FALLBACK
                     ELSE ADAPTIVE_THRESHOLD
    IN [threshold |-> threshold,
        open_grants |-> open_grants_of(items, Base(threshold)),
        closed_grants |-> closed_grants_of(items, Base(threshold))]

adaptive_threshold_group_results(hits, query, max_grants) ==
    LET items == SelectSeq(build_items(by_grant_keys(hits), hits, query),
                           LAMBDA it : ~is_smart_grant(it))
        parts == adaptive_partitions(items)
        diverse == add_diversity_to_grants(parts.open_grants, max_grants, DIVERSITY_WEIGHT)
        result == Take(diverse.value, max_grants)
    IN IF diverse.raised THEN Raised
       ELSE IF Len(result) < max_grants
       THEN Returned(result \o Take(parts.closed_grants, max_grants - Len(result)))
       ELSE Returned(result)

-----------------------------------------------------------------------------
(* Retrieval inside EnhancedGrantSearch (backend/enhanced_search.py).       *)
(* A grant dict of the search pipeline: pinecone_score and combined_score   *)
(* are NoScore while the key is absent.                                     *)

NoScore == -1

grant_dict(gid) ==
    [grant_id |-> gid, title |-> Repo[gid].title, source |-> Repo[gid].source,
     pinecone_score |-> NoScore, combined_score |-> NoScore]

(* grant_store.get_grants_by_ids: the rows whose id is listed, in row order *)
get_grants_by_ids(grant_ids) ==
    SelectSeq(RepoOrder, LAMBDA g : g \in Range(grant_ids))

fetch_grants_by_ids(grant_ids, active_only) ==
    LET rows == SelectSeq(get_grants_by_ids(grant_ids),
                          LAMBDA g : ~(active_only /\ ~Repo[g].is_active))
    IN List([i \in 1..Len(rows) |-> grant_dict(rows[i])])

(* vector_index.search(query, top_k=n): the first n hits of the ranking *)
vector_search(ranking, n) == Take(ranking, n)

(* score_map[gid]: the best score among the results of that grant id *)
score_map(results, gid) == best_score_of(by_grant(results, gid))

(* list(set(grant_ids_raw))[:top_k]: the iteration order of a set of strings *)
(* is not fixed, so any top_k of the distinct ids may be the ones kept       *)
grant_ids_unique(results, top_k) ==
    LET raw == Range(by_grant_keys(results))
    IN IF Cardinality(raw) <= top_k THEN {raw}
       ELSE {U \in SUBSET raw : Cardinality(U) = top_k}

RECURSIVE SetToSeq(_)
SetToSeq(S) ==
    IF S = {} THEN <<>>
    ELSE LET x == CHOOSE y \in S : TRUE IN <<x>> \o SetToSeq(S \ {x})

(* the possible return values of _semantic_search when the retriever answers *)
semantic_search(ranking, top_k, active_only) ==
    LET results == vector_search(ranking, top_k * 2)
    IN {LET grants == fetch_grants_by_ids(SetToSeq(U), active_only)
        IN SortDesc([i \in 1..Len(grants) |->
                       [grants[i] EXCEPT !.pinecone_score =
                                            score_map(results, grants[i].grant_id)]], "pinecone_score")
        : U \in grant_ids_unique(results, top_k)}

-----------------------------------------------------------------------------
(* Inputs of the selectors: the ranked hit list of the vector index.        *)

MaxHits == 2

MaxM == 3

Scores == {35, 50, 60}

ShortIds == {"g1", "g2", "g4", "g7", "g8", UnknownId, NoId}

Hit(gid, score) == [grant_id |-> gid, score |-> score]

ShortHitLists ==
    UNION {[1..n -> {Hit(g, s) : g \in ShortIds, s \in Scores}] : n \in 0..MaxHits}

WideIds == {"g1", "g2", "g3", "g4", "g5", "g6", "g7", "g8"}

(* one hit per grant of a set of grants, in row order, all at one score *)
WideHitLists ==
    {[i \in 1..Len(SelectSeq(RepoOrder, LAMBDA g : g \in S)) |->
        Hit(SelectSeq(RepoOrder, LAMBDA g : g \in S)[i], s)]
     : S \in SUBSET WideIds, s \in Scores}

(* three open grants at three different scores, in any order of grants *)
MixedIds == {"g1", "g2", "g4", "g5"}

MixedHitLists ==
    {<<Hit(t[1], 60), Hit(t[2], 50), Hit(t[3], 35)>> :
        t \in {u \in [1..3 -> MixedIds] : u[1] # u[2] /\ u[1] # u[3] /\ u[2] # u[3]}}

HitInputs == ShortHitLists \cup WideHitLists \cup MixedHitLists

(* a caller's candidate list for add_diversity_to_grants: the items with    *)
(* their score under the documented key 'boosted_score', best first         *)
diversity_candidates(hits, query) ==
    LET items == build_items(by_grant_keys(hits), hits, query)
    IN SortDesc([i \in 1..Len(items) |->
                   [grant_id |-> items[i].grant_id, title |-> items[i].title,
                    source |-> items[i].source,
                    boosted_score |-> items[i].best_score]], "boosted_score")

SelInit ==
    /\ selHits \in HitInputs
    /\ selOp = "none"
    /\ selQuery = <<>>
    /\ selN = 0
    /\ selActive = FALSE
    /\ selWeight = 0
    /\ selOut = <<>>
    /\ EligIdle
    /\ NameIdle
    /\ StreamIdle
    /\ RaceIdle
    /\ SearchIdle

SelectTopGrants ==
    /\ selOp = "none"
    /\ \E q \in SelQueries :
          /\ selQuery' = q
          /\ selOut' = select_top_grants(selHits, q)
    /\ selOp' = "select_top_grants"
    /\ UNCHANGED <<selHits, selWeight, selN, selActive, eligVars, nameVars, streamVars, raceVars, searchVars>>

GroupResultsByGrant ==
    /\ selOp = "none"
    /\ \E m \in 0..MaxM :
          /\ selN' = m
          /\ selOut' = group_results_by_grant(selHits, m)
    /\ selOp' = "group_results_by_grant"
    /\ UNCHANGED <<selHits, selWeight, selQuery, selActive, eligVars, nameVars, streamVars, raceVars, searchVars>>

ImprovedGroupResultsByGrant ==
    /\ selOp = "none"
    /\ \E q \in SelQueries, m \in 0..MaxM :
          /\ selQuery' = q
          /\ selN' = m
          /\ selOut' = improved_group_results_by_grant(selHits, q, m)
    /\ selOp' = "improved_group_results_by_grant"
    /\ UNCHANGED <<selHits, selWeight, selActive, eligVars, nameVars, streamVars, raceVars, searchVars>>

AdaptiveThresholdGroupResults ==
    /\ selOp = "none"
    /\ \E q \in SelQueries, m \in 0..MaxM :
          /\ selQuery' = q
          /\ selN' = m
          /\ selOut' = adaptive_threshold_group_results(selHits, q, m)
    /\ selOp' = "adaptive_threshold_group_results"
    /\ UNCHANGED <<selHits, selWeight, selActive, eligVars, nameVars, streamVars, raceVars, searchVars>>

AddDiversityToGrants ==
    /\ selOp = "none"
    /\ \E q \in SelQueries, m \in 0..MaxM, w \in DiversityWeights :
          /\ selQuery' = q
          /\ selN' = m
          /\ selWeight' = w
          /\ selOut' = add_diversity_to_grants(diversity_candidates(selHits, q), m, w)
    /\ selOp' = "add_diversity_to_grants"
    /\ UNCHANGED <<selHits, selActive, eligVars, nameVars, streamVars, raceVars, searchVars>>

SemanticSearch ==
    /\ selOp = "none"
    /\ \E k \in 1..MaxM, a \in BOOLEAN :
          /\ selN' = k
          /\ selActive' = a
          /\ selOut' \in semantic_search(selHits, k, a)
    /\ selOp' = "semantic_search"
    /\ UNCHANGED <<selHits, selWeight, selQuery, eligVars, nameVars, streamVars, raceVars, searchVars>>

SelNext ==
    \/ SelectTopGrants
    \/ GroupResultsByGrant
    \/ ImprovedGroupResultsByGrant
    \/ AdaptiveThresholdGroupResults
    \/ AddDiversityToGrants
    \/ SemanticSearch

SpecSelect == SelInit /\ [][SelNext]_vars

-----------------------------------------------------------------------------
(* Properties of the selectors.                                             *)

NoDuplicateIds(list) ==
    \A i, j \in 1..Len(list) : i < j => list[i].grant_id # list[j].grant_id

(* x is the greatest score among the hits of grant id gid *)
IsMaxScore(hits, gid, x) ==
    /\ \E i \in 1..Len(hits) : hits[i].grant_id = gid /\ hits[i].score = x
    /\ \A i \in 1..Len(hits) : hits[i].grant_id = gid => hits[i].score <= x

DistinctHitIds(hits) == {hits[i].grant_id : i \in 1..Len(hits)} \ {NoId}

(* C1: the shortlist a selector returns has at most the configured maximum  *)
(* of items (MAX_GRANTS for select_top_grants, max_grants for the diversity *)
(* selectors) and holds no grant id twice.                                  *)
C1_ShortlistCappedAndDistinct ==
    /\ selOp = "select_top_grants" =>
          Len(selOut) <= MAX_GRANTS /\ NoDuplicateIds(selOut)
    /\ (selOp \in {"improved_group_results_by_grant", "add_diversity_to_grants"}
        /\ ~selOut.raised) =>
          Len(selOut.value) <= selN /\ NoDuplicateIds(selOut.value)

(* more open candidates than MAX_GRANTS were offered and the cap was applied *)
C1_Witness ==
    /\ selOp = "select_top_grants"
    /\ Cardinality(DistinctHitIds(selHits) \cap GrantIds) > MAX_GRANTS
    /\ Len(selOut) = MAX_GRANTS

(* C2: aggregation ignores hits without a grant id, yields at most one      *)
(* candidate per grant id, and a candidate's base score is the maximum      *)
(* score among the hits of its grant id.                                    *)
C2_AggregationMaxPerGrant ==
    /\ selOp = "select_top_grants" =>
          LET items == build_items(by_grant_keys(selHits), selHits, selQuery)
          IN /\ NoDuplicateIds(items)
             /\ \A i \in 1..Len(items) :
                   /\ items[i].grant_id # NoId
                   /\ \E x \in Scores :
                         /\ IsMaxScore(selHits, items[i].grant_id, x)
                         /\ items[i].best_score =
                               apply_semantic_boost(selQuery, items[i].title, Base(x))
             /\ \A i \in 1..Len(selOut) : selOut[i] \in Range(items)
    /\ selOp = "group_results_by_grant" =>
          /\ NoDuplicateIds(selOut)
          /\ \A i \in 1..Len(selOut) :
                /\ selOut[i].grant_id # NoId
                /\ IsMaxScore(selHits, selOut[i].grant_id, selOut[i].score)
    /\ selOp = "semantic_search" =>
          /\ NoDuplicateIds(selOut)
          /\ \A i \in 1..Len(selOut) :
                /\ selOut[i].grant_id # NoId
                /\ IsMaxScore(vector_search(selHits, selN * 2), selOut[i].grant_id,
                              selOut[i].pinecone_score)

(* a grant with two hits of different scores, the later one the better, was *)
(* aggregated into one candidate                                            *)
C2_Witness ==
    /\ selOp = "group_results_by_grant"
    /\ Len(selHits) = 2
    /\ selHits[1].grant_id = selHits[2].grant_id
    /\ selHits[1].score < selHits[2].score
    /\ Len(selOut) = 1
    /\ selOut[1].score = selHits[2].score

-----------------------------------------------------------------------------
(* The diversity scenario: three source-A grants with near-identical titles *)
(* (g1, g2, g3) above two source-B grants with distinct titles (g4, g5).    *)

ScenarioScores == {10, 30, 36, 40, 60, 64, 66, 90, 100}

ScenarioHitLists ==
    {<<Hit("g1", t[1]), Hit("g2", t[2]), Hit("g3", t[3]), Hit("g4", t[4]), Hit("g5", t[5])>> :
        t \in {u \in [1..5 -> ScenarioScores] :
                  u[1] >= u[2] /\ u[2] >= u[3] /\ u[3] > u[4] /\ u[4] >= u[5]}}

(* three source-A grants with near-identical titles above a source-A grant   *)
(* with another title and score 0                                           *)
LowScoreHitLists ==
    {<<Hit("g1", t[1]), Hit("g2", t[2]), Hit("g3", t[3]), Hit("g6", 0)>> :
        t \in {u \in [1..3 -> {36, 40, 66}] : u[1] >= u[2] /\ u[2] >= u[3]}}

DivInit ==
    /\ selHits \in ScenarioHitLists \cup LowScoreHitLists
    /\ selOp = "none"
    /\ selQuery = <<>>
    /\ selN = 0
    /\ selActive = FALSE
    /\ selWeight = 0
    /\ selOut = <<>>
    /\ EligIdle
    /\ NameIdle
    /\ StreamIdle
    /\ RaceIdle
    /\ SearchIdle

DivNext == AddDiversityToGrants

SpecDiversity == DivInit /\ [][DivNext]_vars

(* the candidate list handed to add_diversity_to_grants is the scenario's:  *)
(* sorted, the three source-A candidates first, both source-B ones strictly *)
(* lower                                                                    *)
ScenarioCandidates ==
    LET c == diversity_candidates(selHits, selQuery)
    IN /\ selOp = "add_diversity_to_grants"
       /\ selN = 3
       /\ selWeight = DIVERSITY_WEIGHT
       /\ Len(c) = 5
       /\ \A i \in 1..3 : c[i].source = SourceA
       /\ \A i \in 4..5 : c[i].source = SourceB
       /\ c[4].boosted_score < c[3].boosted_score

HasSourceB(list) == \E i \in 1..Len(list) : list[i].source = SourceB

(* C9 as stated: in the scenario with M = 3 the selection always holds a    *)
(* source-B candidate.                                                      *)
C9_AlwaysIncludesSourceB ==
    ScenarioCandidates => ~selOut.raised /\ HasSourceB(selOut.value)

(* C9 amended: the selection holds a source-B candidate when the best       *)
(* source-B score is above the third source-A score minus 0.24, and holds   *)
(* none when it is below that.                                              *)
C9_IncludesSourceBWithinPenalty ==
    ScenarioCandidates =>
       LET c == diversity_candidates(selHits, selQuery)
           a3 == c[3].boosted_score
           b1 == c[4].boosted_score
       IN /\ ~selOut.raised
          /\ b1 > a3 - Base(24) => HasSourceB(selOut.value)
          /\ a3 - Base(24) > b1 => ~HasSourceB(selOut.value)

(* two source-A picks, then the penalties put a source-B candidate third *)
C9_Witness ==
    /\ ScenarioCandidates
    /\ Len(selOut.value) = 3
    /\ selOut.value[1].source = SourceA
    /\ selOut.value[2].source = SourceA
    /\ selOut.value[3].source = SourceB

-----------------------------------------------------------------------------
(* Eligibility filter and fit score (backend/eligibility_filter.py).        *)
(* A profile is a dict: the value of a key is <<>> while the key is not in *)
(* it and <<v>> when it holds v.  The sector list, whose order             *)
(* (list(set(...))) is never read, is held as a set.  Amounts are in        *)
(* thousands of pounds, fit scores in hundredths.                           *)

EmptyProfile ==
    [organization_type |-> <<>>, sector |-> <<>>, funding_range |-> <<>>,
     has_partnerships |-> <<>>, project_stage |-> <<>>]

(* bool(user_profile): a dict is truthy when it has a key *)
profile_truthy(profile) == \E k \in DOMAIN profile : profile[k] # <<>>

(* profile.get(key, "").lower() *)
get_lower(profile, key) == IF profile[key] = <<>> THEN <<>> ELSE Lower(profile[key][1])

Descriptions == {Repo[g].description : g \in GrantIds}

EligLiterals ==
    {<<"l","a","r","g","e"," ","c","o","m","p","a","n","i","e","s"," ","o","n","l","y">>, <<"c","o","r","p","o","r","a","t","e"," ","o","n","l","y">>, <<"i","n","d","u","s","t","r","y"," ","o","n","l","y">>,
     <<"c","o","m","m","e","r","c","i","a","l"," ","o","n","l","y">>, <<"c","o","m","m","e","r","c","i","a","l"," ","r","e","a","d","i","n","e","s","s">>, <<"m","a","r","k","e","t"," ","l","a","u","n","c","h">>,
     <<"e","a","r","l","y"," ","s","t","a","g","e">>, <<"p","r","o","o","f"," ","o","f"," ","c","o","n","c","e","p","t">>, <<"p","a","r","t","n","e","r","s","h","i","p">>,
     <<"s","m","e">>, <<"u","n","i","v","e","r","s","i","t","y">>, <<"b","i","o","m","e","d","i","c","a","l">>, <<"f","i","n","t","e","c","h">>, <<"d","i","g","i","t","a","l"," ","h","e","a","l","t","h">>}

(* "p in full_text", full_text the lower-cased description followed by a   *)
(* blank and the (empty) organization_types list                            *)
FullTextTable ==
    Table([d \in Descriptions |->
              Table([p \in EligLiterals |-> Contains(Lower(d) \o <<" ">>, p)])])

in_full_text(p, grant) == FullTextTable[grant.description][p]

(* the grant_data dict built by filter_grants and rank_by_fit *)
grant_data(gid) ==
    [grant_id |-> gid, budget_max |-> Repo[gid].total_fund_gbp,
     description |-> Repo[gid].description]

(* the sum before the final min(score, 1.0) *)
fit_score_sum(grant, profile) ==
    LET sectors == IF profile.sector = <<>> THEN {} ELSE profile.sector[1]
        org_type == get_lower(profile, "organization_type")
        funding_range == profile.funding_range
        amount == grant.budget_max
        sector_part ==
            IF \E s \in sectors : in_full_text(Lower(s), grant)
            THEN 30 ELSE 0
        org_part == IF org_type # <<>> /\ in_full_text(org_type, grant) THEN 20 ELSE 0
        funding_part ==
            IF funding_range # <<>> /\ amount # 0
            THEN IF funding_range[1].min <= amount /\ amount <= funding_range[1].max THEN 20
                 ELSE IF amount < funding_range[1].max * 2 THEN 10 ELSE 0
            ELSE 0
        partner_part ==
            IF profile.has_partnerships = <<TRUE>> /\ in_full_text(<<"p","a","r","t","n","e","r","s","h","i","p">>, grant)
            THEN 10 ELSE 0
    IN 50 + sector_part + org_part + funding_part + partner_part

(* mutant: the clamp to 1.0 is left out *)
calculate_fit_score_unclamped(grant, profile) == fit_score_sum(grant, profile)

calculate_fit_score(grant, profile) == Min(fit_score_sum(grant, profile), 100)

(* rank_by_fit: (grant_id, fit_score) pairs, best first *)
rank_by_fit(grant_ids, user_profile) ==
    IF ~profile_truthy(user_profile) \/ grant_ids = <<>>
    THEN List([i \in 1..Len(grant_ids) |-> [grant_id |-> grant_ids[i], fit |-> 100]])
    ELSE LET rows == get_grants_by_ids(grant_ids)
         IN SortDesc([i \in 1..Len(rows) |->
                        [grant_id |-> rows[i],
                         fit |-> calculate_fit_score(grant_data(rows[i]), user_profile)]],
                     "fit")

(* mutant: step 3 of _check_eligibility as its commented-out code reads:   *)
(* a profile with sectors none of which the text names excludes the grant   *)
sector_match_enforced(grant, profile) ==
    \/ profile.sector = <<>>
    \/ profile.sector[1] = {}
    \/ \E s \in profile.sector[1] : in_full_text(Lower(s), grant)

(* step 3 of _check_eligibility, the sector match: disabled in the code, so *)
(* no grant fails it                                                        *)
sector_match(grant, profile) == TRUE

check_eligibility(grant, profile) ==
    LET org_type == get_lower(profile, "organization_type")
        funding_range == profile.funding_range
        amount == grant.budget_max
        stage == get_lower(profile, "project_stage")
    IN IF org_type = <<"s","m","e">>
          /\ (in_full_text(<<"l","a","r","g","e"," ","c","o","m","p","a","n","i","e","s"," ","o","n","l","y">>, grant)
              \/ in_full_text(<<"c","o","r","p","o","r","a","t","e"," ","o","n","l","y">>, grant))
       THEN FALSE
       ELSE IF org_type = <<"u","n","i","v","e","r","s","i","t","y">>
          /\ (in_full_text(<<"i","n","d","u","s","t","r","y"," ","o","n","l","y">>, grant)
              \/ in_full_text(<<"c","o","m","m","e","r","c","i","a","l"," ","o","n","l","y">>, grant))
       THEN FALSE
       ELSE IF funding_range # <<>> /\ amount # 0 /\ amount > funding_range[1].max * 2
       THEN FALSE
       ELSE IF ~sector_match(grant, profile)
       THEN FALSE
       ELSE IF stage = <<"e","a","r","l","y">>
          /\ (in_full_text(<<"c","o","m","m","e","r","c","i","a","l"," ","r","e","a","d","i","n","e","s","s">>, grant)
              \/ in_full_text(<<"m","a","r","k","e","t"," ","l","a","u","n","c","h">>, grant))
          /\ ~in_full_text(<<"e","a","r","l","y"," ","s","t","a","g","e">>, grant)
          /\ ~in_full_text(<<"p","r","o","o","f"," ","o","f"," ","c","o","n","c","e","p","t">>, grant)
       THEN FALSE
       ELSE TRUE

(* mutant: no grant is filtered out *)
filter_grants_keep_all(grant_ids, user_profile) == grant_ids

(* filter_grants: the ids of the rows that pass, in row order *)
filter_grants(grant_ids, user_profile) ==
    IF ~profile_truthy(user_profile) \/ grant_ids = <<>> THEN grant_ids
    ELSE SelectSeq(get_grants_by_ids(grant_ids),
                   LAMBDA g : check_eligibility(grant_data(g), user_profile))

-----------------------------------------------------------------------------
(* Inputs and calls of the eligibility engine.                              *)

MaxIds == 2

EligIds == {"g1", "g2", "g4", "g5", UnknownId}

Some(S) == {<<x>> : x \in S}

Profiles ==
    [organization_type : {<<>>} \cup Some({<<"S","M","E">>, <<"u","n","i","v","e","r","s","i","t","y">>}),
     sector : {<<>>} \cup Some({{}, {<<"b","i","o","m","e","d","i","c","a","l">>}, {<<"f","i","n","t","e","c","h">>, <<"d","i","g","i","t","a","l"," ","h","e","a","l","t","h">>}}),
     funding_range : {<<>>} \cup Some({[min |-> 50, max |-> 1000],
                                       [min |-> 2000, max |-> 5000]}),
     has_partnerships : {<<>>} \cup Some(BOOLEAN),
     project_stage : {<<>>} \cup Some({<<"e","a","r","l","y">>})]

IdLists == UNION {[1..n -> EligIds] : n \in 0..MaxIds}

EligInit ==
    /\ eligProfile \in Profiles
    /\ eligIds \in IdLists
    /\ eligOp = "none"
    /\ eligOut = <<>>
    /\ SelIdle
    /\ NameIdle
    /\ StreamIdle
    /\ RaceIdle
    /\ SearchIdle

CalculateFitScore ==
    /\ eligOp = "none"
    /\ Len(eligIds) = 1
    /\ HasGrant(eligIds[1])
    /\ eligOp' = "calculate_fit_score"
    /\ eligOut' = <<calculate_fit_score(grant_data(eligIds[1]), eligProfile)>>
    /\ UNCHANGED <<eligProfile, eligIds, selVars, nameVars, streamVars, raceVars, searchVars>>

RankByFit ==
    /\ eligOp = "none"
    /\ eligOp' = "rank_by_fit"
    /\ eligOut' = rank_by_fit(eligIds, eligProfile)
    /\ UNCHANGED <<eligProfile, eligIds, selVars, nameVars, streamVars, raceVars, searchVars>>

CheckEligibility ==
    /\ eligOp = "none"
    /\ Len(eligIds) = 1
    /\ HasGrant(eligIds[1])
    /\ eligOp' = "check_eligibility"
    /\ eligOut' = <<check_eligibility(grant_data(eligIds[1]), eligProfile)>>
    /\ UNCHANGED <<eligProfile, eligIds, selVars, nameVars, streamVars, raceVars, searchVars>>

FilterGrants ==
    /\ eligOp = "none"
    /\ eligOp' = "filter_grants"
    /\ eligOut' = filter_grants(eligIds, eligProfile)
    /\ UNCHANGED <<eligProfile, eligIds, selVars, nameVars, streamVars, raceVars, searchVars>>

EligNext ==
    \/ CalculateFitScore
    \/ RankByFit
    \/ CheckEligibility
    \/ FilterGrants

SpecElig == EligInit /\ [][EligNext]_vars

-----------------------------------------------------------------------------
(* Properties of the fit score.                                             *)

(* the sums 0.5 + 0.3 + 0.2 + (0.2 or 0.1) + 0.1 can make, in hundredths *)
FitSums == {50 + a + b + c + d : a \in {0, 30}, b \in {0, 20}, c \in {0, 10, 20}, d \in {0, 10}}

(* C10: a fit score lies in [0, 1]: it is the sum of 0.5 and the increments *)
(* +0.3 sector, +0.2 organization type, +0.2 or +0.1 funding, +0.1          *)
(* partnership, clamped to 1.0; the scores rank_by_fit returns lie in       *)
(* [0, 1] as well.                                                          *)
C10_FitScoreInUnitInterval ==
    /\ eligOp = "calculate_fit_score" =>
          LET sum == fit_score_sum(grant_data(eligIds[1]), eligProfile)
          IN /\ sum \in FitSums
             /\ eligOut[1] = IF sum > 100 THEN 100 ELSE sum
             /\ eligOut[1] \in 50..100
    /\ eligOp = "rank_by_fit" =>
          \A i \in 1..Len(eligOut) : eligOut[i].fit \in 0..100

(* every increment applied: the sum 1.3 was clamped to 1.0 *)
C10_Witness ==
    /\ eligOp = "calculate_fit_score"
    /\ fit_score_sum(grant_data(eligIds[1]), eligProfile) = 130
    /\ eligOut = <<100>>

-----------------------------------------------------------------------------
(* The conversation store (backend/conversation_manager.py): a dict from    *)
(* session id to the state of the conversation.                             *)

SessionIds == {"s1"}

NoIntent == "None"

new_session ==
    [messages |-> <<>>, user_profile |-> EmptyProfile, discussed_grants |-> <<>>,
     last_query_intent |-> NoIntent]

(* the dict after "if session_id not in self.conversations: initialize_session" *)
initialize_session(convs, session_id) ==
    IF session_id \in DOMAIN convs THEN convs
    ELSE [s \in (DOMAIN convs) \cup {session_id} |->
             IF s = session_id THEN new_session ELSE convs[s]]

add_message(convs, session_id, role, content, grants) ==
    LET c == initialize_session(convs, session_id)
    IN [c EXCEPT ![session_id].messages =
                      Append(@, [role |-> role, content |-> content,
                                 grants_mentioned |-> grants]),
                 ![session_id].discussed_grants = @ \o grants]

(* mutant: a value already stored is never replaced *)
merge_key_keep_first(old, new, is_list) ==
    IF new = <<>> THEN old
    ELSE IF old = <<>> THEN new
    ELSE IF is_list THEN <<old[1] \cup new[1]>>
    ELSE old

(* one key of the merge of extract_user_profile: a new key is set, a list   *)
(* is united with the stored list, any other value replaces the stored one; *)
(* new is <<>> for a key that new_info does not hold                        *)
merge_key(old, new, is_list) ==
    IF new = <<>> THEN old
    ELSE IF old = <<>> THEN new
    ELSE IF is_list THEN <<old[1] \cup new[1]>>
    ELSE new

extract_user_profile(convs, session_id, new_info) ==
    LET c == initialize_session(convs, session_id)
    IN [c EXCEPT ![session_id].user_profile =
                      [k \in DOMAIN @ |-> merge_key(@[k], new_info[k], k = "sector")]]

(* mutant: every turn reads the state of a new session *)
get_context_stateless(convs, session_id) ==
    [recent_messages |-> <<>>, user_profile |-> new_session.user_profile,
     discussed_grants |-> {}, last_intent |-> new_session.last_query_intent]

(* get_context: discussed_grants is list(set(...)), held as the set *)
get_context(convs, session_id) ==
    LET conv == initialize_session(convs, session_id)[session_id]
    IN [recent_messages |-> IF conv.messages # <<>> THEN LastN(conv.messages, 3) ELSE <<>>,
        user_profile |-> conv.user_profile,
        discussed_grants |-> Range(conv.discussed_grants),
        last_intent |-> conv.last_query_intent]

(* the loop of get_last_grants over reversed(messages), from message i down *)
RECURSIVE last_grants_loop(_, _, _, _)
last_grants_loop(messages, i, grants, n) ==
    IF i = 0 THEN grants
    ELSE IF messages[i].grants_mentioned # <<>>
    THEN LET g == grants \o messages[i].grants_mentioned
         IN IF Len(g) >= n THEN g ELSE last_grants_loop(messages, i - 1, g, n)
    ELSE last_grants_loop(messages, i - 1, grants, n)

get_last_grants(convs, session_id, n) ==
    IF session_id \notin DOMAIN convs THEN <<>>
    ELSE LET messages == convs[session_id].messages
         IN Take(last_grants_loop(messages, Len(messages), <<>>, n), n)

(* ProfileExtractor.extract_from_message: the JSON the language model       *)
(* returns (a null or missing field is <<>>) merged into a copy of the      *)
(* existing profile                                                         *)
extract_from_message(extracted, existing_profile) ==
    [k \in DOMAIN existing_profile |->
        IF extracted[k] = <<>> THEN existing_profile[k]
        ELSE IF k = "sector"
        THEN <<(IF existing_profile[k] = <<>> THEN {} ELSE existing_profile[k][1])
               \cup extracted[k][1]>>
        ELSE extracted[k]]

-----------------------------------------------------------------------------
(* Query analysis of EnhancedGrantSearch (backend/enhanced_search.py).      *)

(* str.strip() for blanks *)
RECURSIVE Strip(_)
Strip(s) ==
    IF s = <<>> THEN s
    ELSE IF s[1] = " " THEN Strip(Tail(s))
    ELSE IF s[Len(s)] = " " THEN Strip(SubSeq(s, 1, Len(s) - 1))
    ELSE s

Q_more == <<"t","e","l","l"," ","m","e"," ","m","o","r","e"," ","a","b","o","u","t"," ","t","h","e"," ","f","i","r","s","t"," ","o","n","e">>

Q_close == <<"W","h","e","n"," ","d","o"," ","t","h","e","s","e"," ","c","l","o","s","e","?">>

Q_which == <<"w","h","i","c","h"," ","o","f"," ","t","h","e","s","e"," ","i","s"," ","b","e","s","t">>

Q_bio == <<"f","i","n","d"," ","m","e"," ","B","i","o","m","e","d","i","c","a","l"," ","C","a","t","a","l","y","s","t"," ","g","r","a","n","t","s">>

Q_eureka == <<"a","n","y"," ","E","u","r","e","k","a"," ","f","u","n","d","i","n","g">>

MainQueries == {Q_more, Q_close, Q_which, Q_bio, Q_eureka, Q_nihr}

(* the literals the regular expressions of followup_patterns match; an      *)
(* optional trailing "\??" matches with or without the question mark        *)
followup_patterns ==
    {<<"w","h","a","t"," ","a","r","e"," ","t","h","e"," ","d","a","t","e","s">>, <<"w","h","a","t"," ","a","r","e"," ","t","h","e"," ","d","e","a","d","l","i","n","e","s">>, <<"w","h","a","t","'","s"," ","t","h","e"," ","d","e","a","d","l","i","n","e">>,
     <<"w","h","e","n"," ","d","o","e","s"," ","i","t"," ","c","l","o","s","e">>, <<"w","h","e","n"," ","d","o","e","s"," ","t","h","i","s"," ","c","l","o","s","e">>, <<"w","h","e","n"," ","d","o"," ","t","h","e","y"," ","c","l","o","s","e">>,
     <<"w","h","e","n"," ","d","o"," ","t","h","e","s","e"," ","c","l","o","s","e">>, <<"w","h","e","n"," ","d","o"," ","t","h","o","s","e"," ","c","l","o","s","e">>, <<"h","o","w"," ","m","u","c","h"," ","f","u","n","d","i","n","g">>,
     <<"w","h","a","t","'","s"," ","t","h","e"," ","b","u","d","g","e","t">>, <<"w","h","o"," ","c","a","n"," ","a","p","p","l","y">>, <<"w","h","a","t"," ","a","r","e"," ","t","h","e"," ","r","e","q","u","i","r","e","m","e","n","t","s">>,
     <<"h","o","w"," ","d","o"," ","i"," ","a","p","p","l","y">>, <<"t","e","l","l"," ","m","e"," ","m","o","r","e">>, <<"t","e","l","l"," ","m","e"," ","m","o","r","e"," ","a","b","o","u","t">>, <<"w","h","a","t"," ","a","b","o","u","t">>,
     <<"w","h","a","t"," ","a","r","e"," ","t","h","e"," ","d","a","t","e","s"," ","f","o","r"," ","t","h","i","s">>, <<"w","h","a","t"," ","a","r","e"," ","t","h","e"," ","d","a","t","e","s"," ","f","o","r"," ","t","h","e","s","e">>,
     <<"w","h","a","t"," ","a","r","e"," ","t","h","e"," ","d","a","t","e","s"," ","f","o","r"," ","t","h","a","t">>, <<"w","h","a","t"," ","a","r","e"," ","t","h","e"," ","d","a","t","e","s"," ","f","o","r"," ","t","h","o","s","e">>,
     <<"w","h","a","t","'","s"," ","t","h","e"," ","f","u","n","d","i","n","g">>, <<"h","o","w"," ","m","u","c","h"," ","c","a","n"," ","i"," ","g","e","t">>}

question_words == {<<"w","h","a","t">>, <<"w","h","e","n">>, <<"h","o","w">>, <<"w","h","o">>, <<"w","h","i","c","h">>, <<"w","h","e","r","e">>}

pronoun_indicators == {<<"t","h","i","s">>, <<"t","h","a","t">>, <<"t","h","e","s","e">>, <<"t","h","o","s","e">>, <<"i","t">>, <<"t","h","e","y">>, <<"t","h","e","m">>}

grant_keywords ==
    <<<<"b","i","o","m","e","d","i","c","a","l"," ","c","a","t","a","l","y","s","t">>, <<"b","i","o","m","e","d"," ","c","a","t","a","l","y","s","t">>, <<"b","i","o","m","e","d","i","c","a","l"," ","c","a","t">>,
      <<"i","4","i">>, <<"i","n","v","e","n","t","i","o","n"," ","f","o","r"," ","i","n","n","o","v","a","t","i","o","n">>, <<"h","o","r","i","z","o","n"," ","e","u","r","o","p","e">>, <<"e","u","r","e","k","a">>,
      <<"d","i","g","i","t","a","l"," ","e","u","r","o","p","e">>, <<"s","m","a","r","t"," ","g","r","a","n","t">>, <<"s","b","r","i">>, <<"s","m","a","l","l"," ","b","u","s","i","n","e","s","s"," ","r","e","s","e","a","r","c","h">>,
      <<"n","i","h","r"," ","f","e","l","l","o","w","s","h","i","p">>, <<"n","i","h","r"," ","p","r","o","f","e","s","s","o","r","s","h","i","p">>, <<"e","r","c"," ","g","r","a","n","t">>, <<"m","a","r","i","e"," ","c","u","r","i","e">>,
      <<"i","n","n","o","v","a","t","e"," ","u","k">>, <<"k","n","o","w","l","e","d","g","e"," ","t","r","a","n","s","f","e","r">>>>

(* the names the classifier can report as referenced_grants *)
RefNames == {<<"B","i","o","m","e","d","i","c","a","l"," ","C","a","t","a","l","y","s","t">>}

(* what the code reads off a query, tabulated once for the queries of the model *)
QueryTable ==
    Table([q \in MainQueries |->
        LET query_lower == Strip(Lower(q))
        IN [matches_pattern |-> \E p \in followup_patterns : Contains(query_lower, p),
            word_count |-> Len(Split(q)),
            starts_with_question |-> \E qw \in question_words : StartsWith(query_lower, qw),
            contains_pronoun |-> \E p \in pronoun_indicators : p \in Range(Split(query_lower)),
            tell_me_more |-> Contains(Lower(q), <<"t","e","l","l"," ","m","e"," ","m","o","r","e">>),
            keyword_hits |-> {i \in 1..Len(grant_keywords) :
                                 Contains(Lower(q), grant_keywords[i])}]])

(* "name in title.lower()", tabulated once for the titles of the model *)
TitleTable ==
    Table([t \in Titles \cup {<<>>} |->
              Table([p \in Range(grant_keywords) \cup {Lower(n) : n \in RefNames} |->
                        Contains(Lower(t), p)])])

title_has(gid_title, name) == TitleTable[gid_title][name]

is_likely_followup(query, context) ==
    LET f == QueryTable[query]
    IN IF context.discussed_grants = {} THEN FALSE
       ELSE IF f.matches_pattern THEN TRUE
       ELSE /\ f.word_count <= 10
            /\ f.starts_with_question
            /\ f.contains_pronoun
            /\ context.recent_messages # <<>>
            /\ context.recent_messages[Len(context.recent_messages)].role = "assistant"

(* mutant: the pattern-based override never fires *)
rule_3_5_off(intent, query, context) == intent

(* step 3.5 of search(): the pattern-based override *)
rule_3_5(intent, query, context) ==
    IF intent # "followup" /\ is_likely_followup(query, context) THEN "followup" ELSE intent

(* step 3.6 of search(): "tell me more" with discussed grants *)
rule_3_6(intent, query, context) ==
    IF QueryTable[query].tell_me_more /\ context.discussed_grants # {}
    THEN IF intent # "followup" THEN "followup" ELSE intent
    ELSE intent

(* _extract_grant_name_query: the first keyword of the list found in the    *)
(* lower-cased query, <<>> for None                                         *)
extract_grant_name_query(query) ==
    LET hits == QueryTable[query].keyword_hits
    IN IF hits = {} THEN <<>>
       ELSE <<grant_keywords[CHOOSE i \in hits : \A j \in hits : i <= j]>>

(* mutant: a matching grant is put in front of the matches found so far *)
filter_grants_by_name_prepend(grants, query_name, top_k) ==
    LET found == SelectSeq(grants, LAMBDA g : title_has(g.title, query_name))
        matching_grants == [i \in 1..Len(found) |-> found[Len(found) + 1 - i]]
        other_grants == SelectSeq(grants, LAMBDA g : ~title_has(g.title, query_name))
        result == Take(matching_grants, top_k)
    IN IF found # <<>>
       THEN IF Len(result) < top_k
            THEN result \o Take(other_grants, top_k - Len(result))
            ELSE result
       ELSE Take(grants, top_k)

(* _filter_grants_by_name *)
filter_grants_by_name(grants, query_name, top_k) ==
    LET matching_grants == SelectSeq(grants, LAMBDA g : title_has(g.title, query_name))
        other_grants == SelectSeq(grants, LAMBDA g : ~title_has(g.title, query_name))
        result == Take(matching_grants, top_k)
    IN IF matching_grants # <<>>
       THEN IF Len(result) < top_k
            THEN result \o Take(other_grants, top_k - Len(result))
            ELSE result
       ELSE Take(grants, top_k)

-----------------------------------------------------------------------------
(* Candidate sources of search().                                           *)

(* grant_store.list_grants(active_only, limit): rows in row order *)
list_grants(active_only, limit) ==
    Take(SelectSeq(RepoOrder, LAMBDA g : ~(active_only /\ ~Repo[g].is_active)), limit)

keyword_search(top_k, active_only) ==
    LET rows == list_grants(active_only, top_k)
    IN List([i \in 1..Len(rows) |-> grant_dict(rows[i])])

(* mutant: a failed retriever call leaves _semantic_search without grants *)
semantic_search_results_unrecovered(has_index, index, top_k, active_only) ==
    IF ~has_index THEN {keyword_search(top_k, active_only)}
    ELSE IF index.raises THEN {<<>>}
    ELSE semantic_search(index.hits, top_k, active_only)

(* what _semantic_search(query, top_k, active_only) can return: the         *)
(* listing when no vector index is configured or its call raises, else a    *)
(* retrieval result.  An index is the hits it answers with and whether its  *)
(* search call raises.                                                      *)
semantic_search_results(has_index, index, top_k, active_only) ==
    IF ~has_index \/ index.raises THEN {keyword_search(top_k, active_only)}
    ELSE semantic_search(index.hits, top_k, active_only)

(* the title in the metadata of a hit *)
metadata_title(gid) == IF HasGrant(gid) THEN Repo[gid].title ELSE <<>>

(* _get_specific_grants for the names the classifier reported: the ids of   *)
(* the first 5 hits whose title contains the name, each once, at most 10    *)
get_specific_grants(has_index, index, grant_names) ==
    IF grant_names = <<>> \/ ~has_index \/ index.raises THEN <<>>
    ELSE LET results == vector_search(index.hits, 5)
             found == SelectSeq(results,
                         LAMBDA r : /\ r.grant_id # NoId
                                    /\ title_has(metadata_title(r.grant_id),
                                                 Lower(grant_names[1])))
         IN Take(FirstSeen([i \in 1..Len(found) |-> found[i].grant_id]), 10)

(* mutant: assistant messages of any length are scanned *)
extract_grants_from_history_any_length(history) ==
    LET assistant_messages ==
            LastN(SelectSeq(history, LAMBDA msg : msg.role = "assistant"), 3)
        RECURSIVE found(_)
        found(i) == IF i > Len(assistant_messages) THEN <<>>
                    ELSE assistant_messages[i].found_ids \o found(i + 1)
    IN Take(FirstSeen(found(1)), 10)

(* _extract_grants_from_history.  A history message carries its role, the   *)
(* length of its content and the grant ids the id pattern finds in it.      *)
extract_grants_from_history(history) ==
    LET assistant_messages ==
            LastN(SelectSeq(history, LAMBDA msg : msg.role = "assistant"
                                                  /\ msg.content_len > 100), 3)
        RECURSIVE found(_)
        found(i) == IF i > Len(assistant_messages) THEN <<>>
                    ELSE assistant_messages[i].found_ids \o found(i + 1)
    IN Take(FirstSeen(found(1)), 10)

(* sort by a key that is not a field of the items: stable, descending *)
SortByKey(s, keys) ==
    LET tagged == SortDesc([i \in 1..Len(s) |-> [item |-> s[i], key |-> keys[i]]], "key")
    IN List([i \in 1..Len(s) |-> tagged[i].item])

ids_of(grants) == List([i \in 1..Len(grants) |-> grants[i].grant_id])

(* step 6 of search(): the combined score 0.7 * pinecone + 0.3 * fit, in    *)
(* thousandths, with 0.5 for a missing pinecone score or fit                *)
rank_grants(grants, updated_profile) ==
    IF grants # <<>> /\ profile_truthy(updated_profile)
    THEN Bind(rank_by_fit(ids_of(grants), updated_profile), LAMBDA ranked :
         LET fit(gid) == LET at == {i \in 1..Len(ranked) : ranked[i].grant_id = gid}
                         IN IF at = {} THEN 50
                            ELSE ranked[CHOOSE i \in at : \A j \in at : j <= i].fit
             scored == List([i \in 1..Len(grants) |->
                          [grants[i] EXCEPT !.combined_score =
                              7 * (IF grants[i].pinecone_score = NoScore THEN 50
                                   ELSE grants[i].pinecone_score)
                              + 3 * fit(grants[i].grant_id)]])
         IN SortDesc(scored, "combined_score"))
    ELSE SortByKey(grants, [i \in 1..Len(grants) |->
                               IF grants[i].pinecone_score = NoScore THEN 0
                               ELSE grants[i].pinecone_score])

-----------------------------------------------------------------------------
(* One turn of EnhancedGrantSearch.search().                                *)

(* the advice text of the language model, an opaque token *)
Response == <<"a","d","v","i","c","e">>

(* the intents the classifier reports; search() reads only whether the      *)
(* intent is "followup" or "comparative", which "strategic" stands for the  *)
(* other intents in ("eligibility", "clarification")                        *)
Intents == {"discovery", "comparative", "followup", "strategic"}

(* mutant: a followup turn is topped up however many grants it found *)
needs_top_up_always(followup_grants, has_index) == has_index

(* the test of the followup branch before its _semantic_search call *)
needs_top_up(followup_grants, has_index) == Len(followup_grants) < 3 /\ has_index

(* steps 3 to 4 of search(), for the context read in step 1, the profile   *)
(* merged in step 2 and the sessions as they are after step 2, up to the    *)
(* point where _semantic_search may be  *)
(* called: semantic_top_k is the top_k of that call, 0 when there is none   *)
search_sources_from(context, updated_profile, convs1, session_id, query, top_k, active_only, history, extracted, classified, has_index, index) ==
    Bind(rule_3_6(rule_3_5(classified.intent, query, context), query, context), LAMBDA intent :
    Bind(get_last_grants(convs1, session_id, 5), LAMBDA last_grant_ids :
    Bind(fetch_grants_by_ids(last_grant_ids, active_only), LAMBDA tracked :
    Bind(extract_grants_from_history(history), LAMBDA history_grant_ids :
    Bind(IF Len(tracked) = 0 /\ history # <<>> /\ history_grant_ids # <<>>
         THEN fetch_grants_by_ids(history_grant_ids, active_only)
         ELSE tracked, LAMBDA followup_grants :
    LET common == [context |-> context, extracted |-> extracted,
                   updated_profile |-> updated_profile,
                   conversations |-> convs1, primary |-> classified.intent,
                   intent |-> intent, last_grant_ids |-> <<>>,
                   history |-> history, history_grant_ids |-> <<>>,
                   sourced |-> <<>>, semantic_top_k |-> 0]
    IN IF intent = "comparative" /\ classified.referenced_grants # <<>>
       THEN [common EXCEPT !.sourced =
                fetch_grants_by_ids(
                    get_specific_grants(has_index, index, classified.referenced_grants),
                    active_only)]
       ELSE IF intent = "followup"
       THEN [common EXCEPT !.last_grant_ids = last_grant_ids,
                           !.history_grant_ids =
                               IF Len(tracked) = 0 /\ history # <<>>
                               THEN history_grant_ids ELSE <<>>,
                           !.sourced = followup_grants,
                           !.semantic_top_k =
                               IF needs_top_up(followup_grants, has_index) THEN 3 ELSE 0]
       ELSE [common EXCEPT !.semantic_top_k = top_k * 2])))))

(* steps 1 and 2 of search() in one piece, then steps 3 to 4 *)
search_sources(convs, session_id, query, top_k, active_only, history, extracted, classified, has_index, index) ==
    Bind(get_context(convs, session_id), LAMBDA context :
    Bind(extract_from_message(extracted, context.user_profile), LAMBDA updated_profile :
    Bind(extract_user_profile(convs, session_id, updated_profile), LAMBDA convs1 :
         search_sources_from(context, updated_profile, convs1, session_id, query, top_k,
                             active_only, history, extracted, classified, has_index, index))))

(* mutant: a name query without a match shows every grant *)
max_grant_cards_no_fallback(intent, grant_name_query, grants) ==
    IF intent = "followup" THEN 0
    ELSE IF grant_name_query # <<>>
    THEN LET matching_count ==
                 Len(SelectSeq(grants, LAMBDA g : title_has(g.title, grant_name_query[1])))
         IN IF matching_count > 0 THEN matching_count ELSE 10
    ELSE 10

(* the number of cards search() returns *)
max_grant_cards(intent, grant_name_query, grants) ==
    IF intent = "followup" THEN 0
    ELSE IF grant_name_query # <<>>
    THEN LET matching_count ==
                 Len(SelectSeq(grants, LAMBDA g : title_has(g.title, grant_name_query[1])))
         IN IF matching_count > 0 THEN matching_count ELSE 4
    ELSE 10

(* mutant: every grant of the list is recorded, not the first five *)
recorded_ids_uncapped(grants) == ids_of(grants)

(* the ids add_message records for the assistant message of the turn *)
recorded_ids(grants) == ids_of(Take(grants, 5))

(* steps 4.5 to 8 of search() and its return value, given the result sem of *)
(* the _semantic_search call (<<>> when there was none)                     *)
search_result(src, session_id, query, top_k, sem) ==
    Bind(src.sourced \o sem, LAMBDA assembled :
    Bind(extract_grant_name_query(query), LAMBDA grant_name_query :
    Bind(IF grant_name_query # <<>>
         THEN filter_grants_by_name(assembled, grant_name_query[1], top_k)
         ELSE assembled, LAMBDA named :
    Bind(filter_grants(ids_of(named), src.updated_profile), LAMBDA filtered_ids :
    Bind(SelectSeq(named, LAMBDA g : g.grant_id \in Range(filtered_ids)), LAMBDA eligible :
    Bind(rank_grants(eligible, src.updated_profile), LAMBDA grants :
    LET llm_grant_count == IF grant_name_query # <<>> THEN 8 ELSE 5
        with_user == add_message(src.conversations, session_id, "user", query, <<>>)
        with_assistant == add_message(with_user, session_id, "assistant", Response,
                                      recorded_ids(grants))
        cards == max_grant_cards(src.intent, grant_name_query, grants)
    IN [conversations |-> with_assistant,
        turn |-> [op |-> "search", session_id |-> session_id, query |-> query,
                  top_k |-> top_k, context |-> src.context,
                  primary |-> src.primary, intent |-> src.intent,
                  extracted |-> src.extracted, user_profile |-> src.updated_profile,
                  classifier_failed |-> FALSE,
                  last_grant_ids |-> src.last_grant_ids,
                  history |-> src.history,
                  history_grant_ids |-> src.history_grant_ids,
                  sourced |-> src.sourced, topped_up |-> sem,
                  candidates |-> assembled,
                  semantic_top_k |-> src.semantic_top_k,
                  grant_name_query |-> grant_name_query,
                  all_grants |-> grants,
                  llm_grants |-> Take(grants, llm_grant_count),
                  grants |-> IF cards > 0 THEN Take(grants, cards) ELSE <<>>]]))))))

-----------------------------------------------------------------------------
(* Inputs of a turn.                                                        *)

MaxTurns == 2

(* the top_k the client passes: the default of search() *)
TopKs == {10}

(* what the profile extractor reads off a message *)
Extractions ==
    {EmptyProfile,
     [EmptyProfile EXCEPT !.organization_type = <<<<"S","M","E">>>>,
                          !.sector = <<{<<"b","i","o","m","e","d","i","c","a","l">>}>>,
                          !.funding_range = <<[min |-> 50, max |-> 1000]>>,
                          !.has_partnerships = <<TRUE>>]}

(* what the intent classifier returns *)
Classifications ==
    [intent : Intents, referenced_grants : {<<>>}]
    \cup {[intent |-> "comparative", referenced_grants |-> <<n>>] : n \in RefNames}

(* what the vector index answers, best first *)
Rankings ==
    {<<>>,
     <<Hit("g1", 60), Hit("g7", 50), Hit(UnknownId, 35)>>,
     <<Hit("g6", 60), Hit("g6", 60), Hit("g1", 60), Hit("g1", 50), Hit("g5", 50),
       Hit("g4", 50), Hit("g2", 35), Hit("g3", 35)>>}

(* the history a client may pass along; search() reads it only on a        *)
(* followup turn that finds no tracked grant                                *)
Histories ==
    {<<>>,
     <<[role |-> "user", content_len |-> 20, found_ids |-> <<>>],
       [role |-> "assistant", content_len |-> 400, found_ids |-> <<"g1", "g2">>]>>}

turns_of(session_id) ==
    IF session_id \in DOMAIN conversations
    THEN Len(SelectSeq(conversations[session_id].messages, LAMBDA msg : msg.role = "user"))
    ELSE 0

NoTurn == [op |-> "none"]

(* what the classifier returns when its call raises *)
ClassifierUnavailable == [intent |-> "raised", referenced_grants |-> <<>>]

(* search() when classify raises: the profile of step 2 is already stored,  *)
(* no message is recorded and the exception leaves search()                 *)
search_raised(src, session_id, query, top_k) ==
    [conversations |-> src.conversations,
     turn |-> [op |-> "raised", session_id |-> session_id, query |-> query,
               top_k |-> top_k, context |-> src.context,
               classifier_failed |-> TRUE,
               extracted |-> src.extracted, user_profile |-> src.updated_profile]]

(* a search engine is constructed, without an index or over an index that   *)
(* answers every query of the behaviour with the same ranking, for a client *)
(* that passes the same top_k and active_only on every turn                 *)
SearchInit ==
    /\ conversations = <<>>
    /\ vector_index \in BOOLEAN
    /\ index_ranking \in (IF vector_index THEN [raises : {FALSE}, hits : Rankings]
                          ELSE {NoIndex})
    /\ client \in [top_k : TopKs, active_only : BOOLEAN]
    /\ turn = NoTurn
    /\ SelIdle
    /\ EligIdle
    /\ NameIdle
    /\ StreamIdle
    /\ RaceIdle

(* one call of search(), from reading the context to the return or to the   *)
(* exception, for inputs drawn from the given sets                          *)
SearchWith(queries, extractions, classifications, histories) ==
    /\ \E session_id \in {s \in SessionIds : turns_of(s) < MaxTurns},
          query \in queries, extracted \in extractions,
          classified \in classifications :
          \E probe \in {search_sources(conversations, session_id, query, client.top_k,
                                       client.active_only, <<>>, extracted,
                                       classified, vector_index, index_ranking)} :
             IF classified = ClassifierUnavailable
             THEN \E out \in {search_raised(probe, session_id, query, client.top_k)} :
                     /\ conversations' = out.conversations
                     /\ turn' = out.turn
             ELSE
             \E history \in (IF probe.intent = "followup" /\ probe.sourced = <<>>
                             THEN histories ELSE {<<>>}) :
                \E src \in {IF history = <<>> THEN probe
                             ELSE search_sources(conversations, session_id, query,
                                                 client.top_k, client.active_only, history,
                                                 extracted, classified, vector_index,
                                                 index_ranking)} :
                   \E sem \in (IF src.semantic_top_k = 0 THEN {<<>>}
                               ELSE semantic_search_results(vector_index, index_ranking,
                                                            src.semantic_top_k,
                                                            client.active_only)) :
                      \E out \in {search_result(src, session_id, query, client.top_k, sem)} :
                         /\ conversations' = out.conversations
                         /\ turn' = out.turn
    /\ UNCHANGED <<vector_index, index_ranking, client, selVars, eligVars, nameVars, streamVars, raceVars>>

Search == SearchWith(MainQueries, Extractions, Classifications, Histories)

Next == Search

Spec == SearchInit /\ [][Next]_vars

-----------------------------------------------------------------------------
(* Claims about a turn of search().                                         *)

NoDuplicates(ids) == \A i, j \in 1..Len(ids) : ids[i] = ids[j] => i = j

(* the messages of a session, none for a session not yet created *)
messages_of(convs, session_id) ==
    IF session_id \in DOMAIN convs THEN convs[session_id].messages ELSE <<>>

discussed_of(convs, session_id) ==
    IF session_id \in DOMAIN convs THEN convs[session_id].discussed_grants ELSE <<>>

(* the grant ids the last message of the session records *)
last_recorded(convs, session_id) ==
    LET messages == messages_of(convs, session_id)
    IN IF messages = <<>> THEN <<>> ELSE messages[Len(messages)].grants_mentioned

(* C3 (as stated): in every turn the list search() assembles, the part of   *)
(* it sent to the response generator, the ids recorded as discussed and the *)
(* cards returned never hold one grant id twice, and the followup top-up    *)
(* adds no grant id that the followup-sourced grants already hold.          *)
C3_NoDuplicateGrants ==
    turn.op = "search" =>
        /\ NoDuplicates(ids_of(turn.all_grants))
        /\ NoDuplicates(ids_of(turn.llm_grants))
        /\ NoDuplicates(last_recorded(conversations, turn.session_id))
        /\ NoDuplicates(ids_of(turn.grants))
        /\ turn.intent = "followup" =>
              Range(ids_of(turn.topped_up)) \cap Range(ids_of(turn.sourced)) = {}

(* C4: with a discussed grant in the session, a query that matches a        *)
(* follow-up pattern or contains "tell me more" resolves to followup        *)
(* whatever the classifier returned, and the two override rules give the    *)
(* same intent in either order and however often they are applied.          *)
C4_OverrideForcesFollowup ==
    turn.op = "search" =>
        LET q == turn.query
            ctx == turn.context
            f == QueryTable[q]
        IN /\ (ctx.discussed_grants # {} /\ (f.matches_pattern \/ f.tell_me_more))
                  => turn.intent = "followup"
           /\ \A i \in Intents :
                 LET a == rule_3_6(rule_3_5(i, q, ctx), q, ctx)
                     b == rule_3_5(rule_3_6(i, q, ctx), q, ctx)
                 IN /\ a = b
                    /\ rule_3_5(a, q, ctx) = a
                    /\ rule_3_6(a, q, ctx) = a
                    /\ rule_3_5(rule_3_5(i, q, ctx), q, ctx) = rule_3_5(i, q, ctx)
                    /\ rule_3_6(rule_3_6(i, q, ctx), q, ctx) = rule_3_6(i, q, ctx)
                    /\ i = turn.primary => turn.intent = a

(* a pattern query without "tell me more", classified as discovery, in a    *)
(* session with discussed grants: resolved to followup                      *)
C4_Witness ==
    /\ turn.op = "search"
    /\ turn.context.discussed_grants # {}
    /\ QueryTable[turn.query].matches_pattern
    /\ ~QueryTable[turn.query].tell_me_more
    /\ turn.primary = "discovery"
    /\ turn.intent = "followup"

(* the ids of the messages of a session, newest message first, each id once *)
last_distinct_grants(convs, session_id, n) ==
    LET messages == messages_of(convs, session_id)
        RECURSIVE newest_first(_)
        newest_first(i) == IF i = 0 THEN <<>>
                           ELSE messages[i].grants_mentioned \o newest_first(i - 1)
    IN Take(FirstSeen(newest_first(Len(messages))), n)

(* C5 (as stated): the ids a followup turn takes from the session,          *)
(* get_last_grants with n = 5, are the last 5 distinct grant ids discussed  *)
(* in the session, most recent first, after any earlier turns.              *)
C5_LastGrantsDistinct ==
    \A s \in DOMAIN conversations :
        get_last_grants(conversations, s, 5) = last_distinct_grants(conversations, s, 5)

(* C6: search() returns no card for a followup; for a query with a          *)
(* programme-name keyword, as many cards as grants of the final list have a *)
(* title with the keyword if there is one, else 4 or the whole list if it   *)
(* is shorter; otherwise at most 10; the cards are the head of the list.    *)
C6_CardCount ==
    turn.op = "search" =>
        LET all == turn.all_grants
            name == turn.grant_name_query
            N == IF name = <<>> THEN 0
                 ELSE Cardinality({i \in 1..Len(all) : title_has(all[i].title, name[1])})
            cards == Len(turn.grants)
        IN /\ turn.grants = Take(all, cards)
           /\ turn.intent = "followup" => cards = 0
           /\ (turn.intent # "followup" /\ name # <<>> /\ N >= 1) => cards = N
           /\ (turn.intent # "followup" /\ name # <<>> /\ N = 0) => cards = Min(4, Len(all))
           /\ (turn.intent # "followup" /\ name = <<>>) => cards = Min(10, Len(all))

(* a name query without a matching title over a list of more than four      *)
(* grants: four cards                                                       *)
C6_Witness ==
    /\ turn.op = "search"
    /\ turn.intent # "followup"
    /\ turn.grant_name_query # <<>>
    /\ \A i \in 1..Len(turn.all_grants) :
          ~title_has(turn.all_grants[i].title, turn.grant_name_query[1])
    /\ Len(turn.all_grants) > 4
    /\ Len(turn.grants) = 4

(* a name query whose cards all have a matching title, fewer than the      *)
(* grants of the final list                                                 *)
C6_WitnessMatches ==
    /\ turn.op = "search"
    /\ turn.grant_name_query # <<>>
    /\ Len(turn.grants) >= 1
    /\ Len(turn.all_grants) > Len(turn.grants)
    /\ \A i \in 1..Len(turn.grants) :
          title_has(turn.grants[i].title, turn.grant_name_query[1])

(* what a turn of search() adds to its session when it records ids *)
turn_recorded(ids) ==
    \A s \in SessionIds :
        (turn'.op = "search" /\ turn'.session_id = s) =>
            /\ messages_of(conversations', s) =
                   messages_of(conversations, s)
                   \o <<[role |-> "user", content |-> turn'.query, grants_mentioned |-> <<>>],
                        [role |-> "assistant", content |-> Response,
                         grants_mentioned |-> ids]>>
            /\ discussed_of(conversations', s) = discussed_of(conversations, s) \o ids

(* C7 (as stated): a turn appends the user message and then the assistant   *)
(* message to the session, and the ids it records as discussed are exactly  *)
(* the ids of the cards it returns.                                         *)
C7_RecordsSurfacedCards == [][turn_recorded(ids_of(turn'.grants))]_vars

(* C7 (amended): a turn appends the user message and then the assistant     *)
(* message to the session, and the ids it records as discussed are the ids  *)
(* of the first five grants of its final ranked list, whether or not they   *)
(* are returned as cards.                                                   *)
C7_RecordsFirstFive == [][turn_recorded(ids_of(Take(turn'.all_grants, 5)))]_vars

(* a followup turn: no card returned, grants recorded *)
C7_Witness ==
    /\ turn.op = "search"
    /\ turn.intent = "followup"
    /\ turn.grants = <<>>
    /\ last_recorded(conversations, turn.session_id) # <<>>
    /\ last_recorded(conversations, turn.session_id) = ids_of(Take(turn.all_grants, 5))
    /\ Len(messages_of(conversations, turn.session_id)) = 4

-----------------------------------------------------------------------------
(* _filter_grants_by_name on its own: a list of grants, a programme-name    *)
(* keyword and a top_k.                                                     *)

MaxNameLen == 3

NameIds == {"g1", "g2", "g3", "g4", "g6"}

NameKeywords == {<<"b","i","o","m","e","d","i","c","a","l"," ","c","a","t","a","l","y","s","t">>, <<"s","m","a","r","t"," ","g","r","a","n","t">>, <<"e","u","r","e","k","a">>}

NameLists == UNION {[1..n -> NameIds] : n \in 0..MaxNameLen}

NameInit ==
    /\ nameGrants \in NameLists
    /\ nameKeyword \in NameKeywords
    /\ nameTopK \in 1..MaxNameLen
    /\ nameOp = "none"
    /\ nameOut = <<>>
    /\ SelIdle
    /\ EligIdle
    /\ SearchIdle
    /\ StreamIdle
    /\ RaceIdle

FilterGrantsByName ==
    /\ nameOp = "none"
    /\ nameOp' = "filter_grants_by_name"
    /\ nameOut' = ids_of(filter_grants_by_name(
                             List([i \in 1..Len(nameGrants) |-> grant_dict(nameGrants[i])]),
                             nameKeyword, nameTopK))
    /\ UNCHANGED <<nameGrants, nameKeyword, nameTopK, selVars, eligVars, searchVars, streamVars, raceVars>>

NameNext == FilterGrantsByName

SpecName == NameInit /\ [][NameNext]_vars

name_matches(gid) == title_has(Repo[gid].title, nameKeyword)

(* C8 (as stated): when a title of the input holds the keyword, the result  *)
(* holds every input grant whose title holds it, all of them before any     *)
(* other grant, and other grants only while the total stays within top_k;   *)
(* when no title holds it, the result is the input cut to top_k.            *)
C8_AllMatchesReturned ==
    nameOp = "filter_grants_by_name" =>
        LET matching == SelectSeq(nameGrants, name_matches)
            others == SelectSeq(nameGrants, LAMBDA g : ~name_matches(g))
        IN IF matching # <<>>
           THEN nameOut = matching \o Take(others, Max(0, nameTopK - Len(matching)))
           ELSE nameOut = Take(nameGrants, nameTopK)

-----------------------------------------------------------------------------
(* Claims about the eligibility check and the profile's sector.             *)

SectorValues == {p.sector : p \in Profiles}

(* the profiles that differ from a profile in the sector field at most *)
sector_variants(profile) == {[profile EXCEPT !.sector = s] : s \in SectorValues}

(* C11: for every grant and every two profiles that differ only in the      *)
(* sector field, _check_eligibility gives the same answer and filter_grants *)
(* keeps or drops the grant alike.                                          *)
C11_SectorNeverExcludes ==
    /\ eligOp = "check_eligibility" =>
          \A p2 \in sector_variants(eligProfile) :
              eligOut = <<check_eligibility(grant_data(eligIds[1]), p2)>>
    /\ eligOp = "filter_grants" =>
          \A p2 \in sector_variants(eligProfile) : \A g \in GrantIds :
              (g \in Range(eligOut)) <=> (g \in Range(filter_grants(eligIds, p2)))

(* a profile whose sectors the grant's text does not name: the grant        *)
(* passes, and the sector changes nothing but the fit score of other grants *)
C11_Witness ==
    /\ eligOp = "check_eligibility"
    /\ eligProfile.sector # <<>>
    /\ eligProfile.sector[1] # {}
    /\ \A s \in eligProfile.sector[1] : ~in_full_text(Lower(s), grant_data(eligIds[1]))
    /\ eligOut = <<TRUE>>
    /\ \E g \in GrantIds :
          calculate_fit_score(grant_data(g), eligProfile)
              # calculate_fit_score(grant_data(g), [eligProfile EXCEPT !.sector = <<>>])

(* C18: for a university profile and a grant whose eligibility text holds   *)
(* "industry only", _check_eligibility answers false and filter_grants      *)
(* leaves the grant's id out; for an empty profile filter_grants returns    *)
(* its input ids unchanged.                                                 *)
C18_UniversityIndustryOnly ==
    LET university == get_lower(eligProfile, "organization_type") = <<"u","n","i","v","e","r","s","i","t","y">>
        industry_only(g) == HasGrant(g) /\ in_full_text(<<"i","n","d","u","s","t","r","y"," ","o","n","l","y">>, grant_data(g))
    IN /\ (eligOp = "check_eligibility" /\ university /\ industry_only(eligIds[1]))
              => eligOut = <<FALSE>>
       /\ (eligOp = "filter_grants" /\ university)
              => \A g \in Range(eligIds) : industry_only(g) => g \notin Range(eligOut)
       /\ (eligOp = "filter_grants" /\ eligProfile = EmptyProfile)
              => eligOut = eligIds

(* a university profile, an "industry only" grant and another grant: only   *)
(* the other grant is left                                                  *)
C18_Witness ==
    /\ eligOp = "filter_grants"
    /\ get_lower(eligProfile, "organization_type") = <<"u","n","i","v","e","r","s","i","t","y">>
    /\ \E g \in Range(eligIds) : HasGrant(g) /\ in_full_text(<<"i","n","d","u","s","t","r","y"," ","o","n","l","y">>, grant_data(g))
    /\ Len(eligIds) = 2
    /\ Len(eligOut) = 1
    /\ eligOut[1] \in Range(eligIds)

(* an empty profile and two ids, one of them unknown to the store: both     *)
(* returned                                                                 *)
C18_WitnessEmptyProfile ==
    /\ eligOp = "filter_grants"
    /\ eligProfile = EmptyProfile
    /\ Len(eligIds) = 2
    /\ UnknownId \in Range(eligIds)
    /\ eligOut = eligIds

(* C17: _filter_grants_by_name applied to its own result, with the same     *)
(* keyword and top_k, returns that result.                                  *)
C17_NameFilterIdempotent ==
    nameOp = "filter_grants_by_name" =>
        ids_of(filter_grants_by_name(
                   List([i \in 1..Len(nameOut) |-> grant_dict(nameOut[i])]),
                   nameKeyword, nameTopK)) = nameOut

(* a list with two different matches and another grant, cut by top_k *)
C17_Witness ==
    /\ nameOp = "filter_grants_by_name"
    /\ Len(nameOut) < Len(nameGrants)
    /\ Len(nameOut) >= 2
    /\ name_matches(nameOut[1])
    /\ name_matches(nameOut[2])
    /\ nameOut[1] # nameOut[2]
    /\ \E i \in 1..Len(nameGrants) : ~name_matches(nameGrants[i])

-----------------------------------------------------------------------------
(* The boost scenario: select_top_grants over hits of the grants whose      *)
(* titles name "AI" (g4, g9, g10; g9 and g10 also name "healthcare").       *)

BoostIds == {"g4", "g9", "g10"}

BoostHitLists ==
    UNION {[1..n -> {Hit(g, s) : g \in BoostIds, s \in Scores}] : n \in 0..MaxHits}

BoostInit ==
    /\ selHits \in BoostHitLists
    /\ selOp = "none"
    /\ selQuery = <<>>
    /\ selN = 0
    /\ selActive = FALSE
    /\ selWeight = 0
    /\ selOut = <<>>
    /\ EligIdle
    /\ NameIdle
    /\ StreamIdle
    /\ RaceIdle
    /\ SearchIdle

BoostSelectTopGrants ==
    /\ selOp = "none"
    /\ \E q \in BoostQueries :
          /\ selQuery' = q
          /\ selOut' = select_top_grants(selHits, q)
    /\ selOp' = "select_top_grants"
    /\ UNCHANGED <<selHits, selWeight, selN, selActive, eligVars, nameVars, streamVars, raceVars, searchVars>>

BoostNext == BoostSelectTopGrants

SpecBoost == BoostInit /\ [][BoostNext]_vars

(* the topics of apply_semantic_boost: query keywords, title keywords and   *)
(* the factor as a fraction                                                 *)
BoostTopics ==
    <<[query |-> {<<"c","a","n","c","e","r">>, <<"o","n","c","o","l","o","g">>}, title |-> {<<"c","a","n","c","e","r">>, <<"o","n","c","o","l","o","g">>},
       num |-> 28, den |-> 25],
      [query |-> {<<"t","h","e","r","a","p">>}, title |-> {<<"t","h","e","r","a","p">>, <<"t","r","e","a","t","m","e","n","t">>},
       num |-> 27, den |-> 25],
      [query |-> {<<"p","a","e","d","i","a","t","r">>, <<"p","e","d","i","a","t","r">>},
       title |-> {<<"p","a","e","d","i","a","t","r">>, <<"p","e","d","i","a","t","r">>, <<"c","h","i","l","d","r","e","n">>, <<"c","h","i","l","d">>},
       num |-> 11, den |-> 10],
      [query |-> {<<"a","i">>, <<"a","r","t","i","f","i","c","i","a","l"," ","i","n","t","e","l","l","i","g","e","n","c","e">>, <<"l","l","m">>, <<"a","g","e","n","t","i","c">>},
       title |-> {<<"a","i">>, <<"a","r","t","i","f","i","c","i","a","l"," ","i","n","t","e","l","l","i","g","e","n","c","e">>, <<"a","g","e","n","t","i","c">>, <<"l","l","m">>},
       num |-> 11, den |-> 10]>>

topic_matches(k, query, title) ==
    LowerHasAny(query, BoostTopics[k].query) /\ LowerHasAny(title, BoostTopics[k].title)

(* numerator and denominator of the product of the factors of the matching  *)
(* topics                                                                   *)
RECURSIVE factor_num(_, _, _)
factor_num(k, query, title) ==
    IF k = 0 THEN 1
    ELSE (IF topic_matches(k, query, title) THEN BoostTopics[k].num ELSE 1)
         * factor_num(k - 1, query, title)

RECURSIVE factor_den(_, _, _)
factor_den(k, query, title) ==
    IF k = 0 THEN 1
    ELSE (IF topic_matches(k, query, title) THEN BoostTopics[k].den ELSE 1)
         * factor_den(k - 1, query, title)

(* every candidate's score is its base score times the factor of every      *)
(* matching topic                                                           *)
boost_compounds ==
    LET items == build_items(by_grant_keys(selHits), selHits, selQuery)
    IN \A i \in 1..Len(items) :
          \E x \in Scores :
              /\ IsMaxScore(selHits, items[i].grant_id, x)
              /\ items[i].best_score
                     = x * factor_num(4, selQuery, items[i].title)
                         * (ScoreUnit \div factor_den(4, selQuery, items[i].title))

(* the scenario: "AI funding for healthcare" and two candidates whose       *)
(* titles name "AI" and "healthcare", both at 0.50                          *)
boost_scenario ==
    /\ selOp = "select_top_grants"
    /\ selQuery = Q_ai
    /\ selHits = <<Hit("g9", 50), Hit("g10", 50)>>

(* C16 (as stated): the base score is multiplied by the factor of every     *)
(* matching topic, and in the scenario both scores become 0.605 and the     *)
(* candidates keep their order.                                             *)
C16_ScenarioBecomes0605 ==
    selOp = "select_top_grants" =>
        /\ boost_compounds
        /\ boost_scenario =>
              /\ ids_of(selOut) = <<"g9", "g10">>
              /\ \A i \in 1..2 : selOut[i].best_score * 2 = Base(121)

(* C16 (amended): the base score is multiplied by the factor of every       *)
(* matching topic (cancer 1.12, therapy 1.08, paediatrics 1.10, AI 1.10);   *)
(* no topic has "healthcare" as a keyword, so in the scenario only the AI   *)
(* factor applies, both scores become 0.55 and the candidates keep their    *)
(* order.                                                                   *)
C16_ScenarioBecomes055 ==
    selOp = "select_top_grants" =>
        /\ boost_compounds
        /\ boost_scenario =>
              /\ ids_of(selOut) = <<"g9", "g10">>
              /\ \A i \in 1..2 : selOut[i].best_score = Base(55)

(* the scenario was run and returned both candidates *)
C16_Witness ==
    /\ boost_scenario
    /\ Len(selOut) = 2
    /\ selOut[1].best_score = Base(55)

(* three topics compound on one candidate: 0.50 * 1.12 * 1.08 * 1.10 =     *)
(* 0.66528, in score units 4158000                                          *)
C16_WitnessCompound ==
    /\ selOp = "select_top_grants"
    /\ selQuery = Q_cancer
    /\ selHits = <<Hit("g4", 50)>>
    /\ Len(selOut) = 1
    /\ selOut[1].best_score = 4158000

-----------------------------------------------------------------------------
(* Claims about the adaptive threshold of adaptive_threshold_group_results. *)

(* the candidates of a call: one item per resolvable grant, Smart Grants    *)
(* left out                                                                 *)
adaptive_items ==
    SelectSeq(build_items(by_grant_keys(selHits), selHits, selQuery),
              LAMBDA it : ~is_smart_grant(it))

admitted(parts) == Range(parts.open_grants) \cup Range(parts.closed_grants)

(* C15: when fewer than 2 open candidates pass at 0.50 the filtering is     *)
(* redone at 0.35 and every candidate with a score in [0.35, 0.50) is       *)
(* admitted to the open or the closed list; when at least 2 open candidates *)
(* pass at 0.50 no candidate below 0.50 is admitted.                        *)
C15_AdaptiveRelaxation ==
    selOp = "adaptive_threshold_group_results" =>
        LET items == adaptive_items
            parts == adaptive_partitions(items)
            strong_open == {i \in 1..Len(items) :
                               items[i].best_score >= Base(50) /\ is_open(items[i])}
        IN /\ Cardinality(strong_open) < 2 =>
                 /\ parts.threshold = 35
                 /\ \A i \in 1..Len(items) :
                       (items[i].best_score >= Base(35)) <=> (items[i] \in admitted(parts))
                 /\ \A i \in 1..Len(items) :
                       items[i].best_score >= Base(35) =>
                           (items[i] \in Range(parts.open_grants)) <=> is_open(items[i])
           /\ Cardinality(strong_open) >= 2 =>
                 /\ parts.threshold = 50
                 /\ \A i \in 1..Len(items) :
                       (items[i].best_score >= Base(50)) <=> (items[i] \in admitted(parts))
           /\ ~selOut.raised =>
                 \A i \in 1..Len(selOut.value) : selOut.value[i] \in admitted(parts)

(* one open candidate at 0.50 or more and one at 0.35: the threshold was    *)
(* lowered and the weaker candidate admitted                                *)
C15_Witness ==
    /\ selOp = "adaptive_threshold_group_results"
    /\ LET items == adaptive_items
           parts == adaptive_partitions(items)
       IN /\ parts.threshold = 35
          /\ \E i \in 1..Len(items) :
                /\ items[i].best_score < Base(50)
                /\ items[i] \in admitted(parts)
          /\ \E i \in 1..Len(items) : items[i].best_score >= Base(50)

(* two open candidates pass at 0.50 and a third candidate is below it: not  *)
(* admitted                                                                 *)
C15_WitnessStrict ==
    /\ selOp = "adaptive_threshold_group_results"
    /\ LET items == adaptive_items
           parts == adaptive_partitions(items)
       IN /\ parts.threshold = 50
          /\ \E i \in 1..Len(items) :
                items[i].best_score < Base(50) /\ items[i] \notin admitted(parts)

-----------------------------------------------------------------------------
(* Turns of one session with failing collaborators: the classifier call may *)
(* raise, the index may be missing, raise on every call, or answer.         *)

SessionQueries == {Q_more}

SessionExtractions ==
    {EmptyProfile,
     [EmptyProfile EXCEPT !.organization_type = <<<<"S","M","E">>>>,
                          !.sector = <<{<<"b","i","o","m","e","d","i","c","a","l">>}>>,
                          !.has_partnerships = <<TRUE>>],
     [EmptyProfile EXCEPT !.organization_type = <<<<"u","n","i","v","e","r","s","i","t","y">>>>,
                          !.sector = <<{<<"f","i","n","t","e","c","h">>, <<"d","i","g","i","t","a","l"," ","h","e","a","l","t","h">>}>>,
                          !.has_partnerships = <<FALSE>>]}

SessionClassifications ==
    {[intent |-> "discovery", referenced_grants |-> <<>>],
     [intent |-> "followup", referenced_grants |-> <<>>],
     ClassifierUnavailable}

Said(role, content_len, found_ids) ==
    [role |-> role, content_len |-> content_len, found_ids |-> found_ids]

(* histories whose assistant messages are long or short, repeat ids, are    *)
(* more than three, or hold more than ten ids                               *)
SessionHistories ==
    {<<>>,
     <<Said("user", 20, <<>>), Said("assistant", 400, <<"g1", "g2">>),
       Said("assistant", 400, <<"g2", "g4">>), Said("assistant", 60, <<"g3">>),
       Said("assistant", 400, <<"g1", "g5">>)>>,
     <<Said("assistant", 400, <<"g6">>), Said("assistant", 400, <<"g1">>),
       Said("user", 400, <<"g8">>), Said("assistant", 400, <<"g2", "g1">>),
       Said("assistant", 400, <<"g3">>)>>,
     <<Said("assistant", 900, <<"g10", "g9", "g8", "g7", "g6", "g5", "g4", "g3",
                                "g2", "g1", UnknownId>>)>>}

SessionRankings ==
    {[raises |-> TRUE, hits |-> <<>>],
     [raises |-> FALSE, hits |-> <<Hit("g1", 60), Hit("g7", 50), Hit(UnknownId, 35)>>]}

SessionInit ==
    /\ conversations = <<>>
    /\ vector_index \in BOOLEAN
    /\ index_ranking \in (IF vector_index THEN SessionRankings ELSE {NoIndex})
    /\ client \in [top_k : TopKs, active_only : BOOLEAN]
    /\ turn = NoTurn
    /\ SelIdle
    /\ EligIdle
    /\ NameIdle
    /\ StreamIdle
    /\ RaceIdle

SessionSearch ==
    SearchWith(SessionQueries, SessionExtractions, SessionClassifications, SessionHistories)

SessionNext == SessionSearch

SpecSession == SessionInit /\ [][SessionNext]_vars

-----------------------------------------------------------------------------
(* C12: when the call of the intent classifier fails, the turn still        *)
(* completes, and its intent is what the override rules of steps 3.5 and    *)
(* 3.6 make of "discovery".                                                 *)
C12_ClassifierFailureDefaultsToDiscovery ==
    (turn.op # "none" /\ turn.classifier_failed) =>
        /\ turn.op = "search"
        /\ turn.intent = rule_3_6(rule_3_5("discovery", turn.query, turn.context),
                                  turn.query, turn.context)

(* the rows a listing of at most n grants returns *)
listed_ids(n, active_only) ==
    LET rows == SelectSeq(RepoOrder, LAMBDA g : Repo[g].is_active \/ ~active_only)
    IN IF Len(rows) <= n THEN rows ELSE SubSeq(rows, 1, n)

(* C13: over an index whose search call raises, a turn whose classifier     *)
(* answered returns a result, and what its _semantic_search call            *)
(* contributed is the repository listing: at most top_k grants of the call, *)
(* in row order, active ones only when active_only is set.                  *)
C13_RetrieverFailureFallsBack ==
    (turn.op # "none" /\ vector_index /\ index_ranking.raises /\ ~turn.classifier_failed) =>
        /\ turn.op = "search"
        /\ turn.semantic_top_k > 0 =>
              /\ Len(turn.topped_up) <= turn.semantic_top_k
              /\ ids_of(turn.topped_up) = listed_ids(turn.semantic_top_k, client.active_only)
              /\ \A i \in 1..Len(turn.topped_up) :
                    /\ turn.topped_up[i].pinecone_score = NoScore
                    /\ client.active_only => Repo[turn.topped_up[i].grant_id].is_active

(* a discovery turn over a failing index returned the listing as cards *)
C13_Witness ==
    /\ turn.op = "search"
    /\ vector_index /\ index_ranking.raises
    /\ turn.intent = "discovery"
    /\ turn.topped_up # <<>>
    /\ turn.grants # <<>>
    /\ client.active_only

(* a followup turn without tracked grants over a failing index was topped   *)
(* up from the listing                                                      *)
C13_WitnessTopUp ==
    /\ turn.op = "search"
    /\ vector_index /\ index_ranking.raises
    /\ turn.intent = "followup"
    /\ turn.semantic_top_k = 3
    /\ Len(turn.topped_up) = 3

-----------------------------------------------------------------------------
(* The fallback of a followup turn to the supplied history.                 *)

(* the assistant messages of a history, by position *)
assistant_at(history) ==
    {i \in 1..Len(history) : history[i].role = "assistant"}

(* those whose content is longer than 100 characters *)
long_assistant_at(history) ==
    {i \in assistant_at(history) : history[i].content_len > 100}

last_three(S) == {i \in S : Cardinality({j \in S : j > i}) < 3}

(* the places <<message, token>> where an id stands in the messages at S *)
id_places(history, S) ==
    UNION {{<<i, k>> : k \in 1..Len(history[i].found_ids)} : i \in S}

id_at(history, p) == history[p[1]].found_ids[p[2]]

place_before(p, q) == p[1] < q[1] \/ (p[1] = q[1] /\ p[2] < q[2])

first_place(history, S, id) ==
    CHOOSE p \in id_places(history, S) :
        /\ id_at(history, p) = id
        /\ \A q \in id_places(history, S) : id_at(history, q) = id => ~place_before(q, p)

(* r holds the ids found in the messages at S, each once, in order of first *)
(* appearance, and all of them unless it holds ten                          *)
recovers(history, S, r) ==
    LET ids == {id_at(history, p) : p \in id_places(history, S)}
    IN /\ Len(r) <= 10
       /\ NoDuplicates(r)
       /\ Range(r) \subseteq ids
       /\ \A i, j \in 1..Len(r) :
             i < j => place_before(first_place(history, S, r[i]),
                                   first_place(history, S, r[j]))
       /\ \A id \in ids \ Range(r) :
             /\ Len(r) = 10
             /\ \A i \in 1..Len(r) :
                   place_before(first_place(history, S, r[i]), first_place(history, S, id))

(* a followup turn of a session without tracked grants that was handed a    *)
(* history                                                                  *)
history_fallback_turn ==
    /\ turn.op = "search"
    /\ turn.intent = "followup"
    /\ turn.last_grant_ids = <<>>
    /\ turn.history # <<>>

C14_WitnessCapped ==
    /\ history_fallback_turn
    /\ Len(turn.history_grant_ids) = 10
    /\ Cardinality({id_at(turn.history, p) :
                       p \in id_places(turn.history, assistant_at(turn.history))}) > 10

(* four long assistant messages: the ids of the oldest are not returned *)
C14_WitnessOlderDropped ==
    /\ history_fallback_turn
    /\ Cardinality(long_assistant_at(turn.history)) > 3
    /\ turn.history_grant_ids = <<"g1", "g2", "g3">>

-----------------------------------------------------------------------------
(* The session state from one turn to the next.                             *)

ScalarKeys == {"organization_type", "funding_range", "has_partnerships", "project_stage"}

stored_profile(convs, session_id) ==
    IF session_id \in DOMAIN convs THEN convs[session_id].user_profile ELSE EmptyProfile

sectors_of(profile) == IF profile.sector = <<>> THEN {} ELSE profile.sector[1]

(* new is old merged with the extraction e *)
merge_rule(old, e, new) ==
    /\ \A k \in ScalarKeys : new[k] = IF e[k] # <<>> THEN e[k] ELSE old[k]
    /\ sectors_of(new) = sectors_of(old) \cup sectors_of(e)
    /\ (new.sector = <<>>) <=> (old.sector = <<>> /\ e.sector = <<>>)

(* C19: on every turn the stored profile of the session is the profile it   *)
(* held before, merged with what the turn extracted: a scalar field takes   *)
(* the extracted value when there is one and keeps its value otherwise, and *)
(* the sector field is the union of the stored and the extracted sectors.   *)
C19_ProfileMergeRule ==
    [][merge_rule(stored_profile(conversations, turn'.session_id), turn'.extracted,
                  stored_profile(conversations', turn'.session_id))]_vars

(* a later turn replaced the organisation type and the partnership flag and *)
(* added two sectors to the stored one                                      *)
C19_Witness ==
    /\ turn.op = "search"
    /\ turn.context.user_profile.organization_type = <<<<"S","M","E">>>>
    /\ turn.context.user_profile.has_partnerships = <<TRUE>>
    /\ stored_profile(conversations, turn.session_id).organization_type
          = <<<<"u","n","i","v","e","r","s","i","t","y">>>>
    /\ stored_profile(conversations, turn.session_id).has_partnerships = <<FALSE>>
    /\ Cardinality(sectors_of(stored_profile(conversations, turn.session_id))) = 3

(* a turn that extracted nothing left a non-empty profile as it was *)
C19_WitnessNothingExtracted ==
    /\ turn.op # "none"
    /\ turn.extracted = EmptyProfile
    /\ turn.context.user_profile # EmptyProfile
    /\ stored_profile(conversations, turn.session_id) = turn.context.user_profile

IsPrefix(s, t) == Len(s) <= Len(t) /\ \A i \in 1..Len(s) : s[i] = t[i]

(* what the turn about to end read is what the turns before it wrote *)
reads_earlier_state(before, previous, this) ==
    LET s == this.session_id
        messages == messages_of(before, s)
        n == Len(messages)
    IN /\ this.context.user_profile = stored_profile(before, s)
       /\ this.context.discussed_grants = Range(discussed_of(before, s))
       /\ this.context.recent_messages =
             [i \in 1..(IF n < 3 THEN n ELSE 3) |-> messages[n - (IF n < 3 THEN n ELSE 3) + i]]
       /\ (s \notin DOMAIN before) =>
             /\ this.context.recent_messages = <<>>
             /\ this.context.user_profile = EmptyProfile
             /\ this.context.discussed_grants = {}
       /\ (previous.op # "none" /\ previous.session_id = s) =>
             this.context.user_profile = previous.user_profile
       /\ (previous.op = "search" /\ previous.session_id = s) =>
             LET shown == ids_of(previous.all_grants)
                 recorded == IF Len(shown) <= 5 THEN shown ELSE SubSeq(shown, 1, 5)
             IN /\ n >= 2
                /\ messages[n - 1].role = "user"
                /\ messages[n - 1].content = previous.query
                /\ messages[n].role = "assistant"
                /\ messages[n].grants_mentioned = recorded
                /\ Range(recorded) \subseteq this.context.discussed_grants
                /\ (recorded # <<>> /\ this.op = "search" /\ this.intent = "followup") =>
                      /\ IsPrefix(recorded, this.last_grant_ids)
                      /\ Range(recorded) \subseteq Range(ids_of(this.sourced))
                      /\ Range(ids_of(this.sourced)) \subseteq Range(this.last_grant_ids)

C20_WitnessAfterRaised ==
    /\ turn.op = "search"
    /\ turn.context.recent_messages = <<>>
    /\ turn.context.user_profile # EmptyProfile

-----------------------------------------------------------------------------
(* Ranking and tiering.                                                     *)

NonIncreasing(list, key) ==
    \A i, j \in 1..Len(list) : i < j => list[i][key] >= list[j][key]

(* the grants of the store among the hits that _fetch_grants_by_ids can     *)
(* return, and those of them with the greatest retriever score              *)
resolvable_ids(results, active_only) ==
    {g \in DistinctHitIds(results) \cap GrantIds : Repo[g].is_active \/ ~active_only}

hit_score(results, g) ==
    CHOOSE x \in {results[i].score : i \in 1..Len(results)} : IsMaxScore(results, g, x)

top_resolvable_ids(results, active_only) ==
    {g \in resolvable_ids(results, active_only) :
        \A h \in resolvable_ids(results, active_only) :
            hit_score(results, h) <= hit_score(results, g)}

(* C22 (as stated): the grants _semantic_search returns, which search()    *)
(* passes on for a discovery query without a profile, are in non-increasing *)
(* order of retriever score, and they include a grant with the highest      *)
(* retriever score among the resolvable (with active_only, active) grants   *)
(* of the hits.                                                             *)
C22_RankingPreserved ==
    selOp = "semantic_search" =>
          LET results == SubSeq(selHits, 1, Min(Len(selHits), 2 * selN))
          IN /\ NonIncreasing(selOut, "pinecone_score")
             /\ top_resolvable_ids(results, selActive) # {} =>
                   \E i \in 1..Len(selOut) :
                      selOut[i].grant_id \in top_resolvable_ids(results, selActive)

(* the candidates of a select_top_grants call that pass its score test *)
surviving_items ==
    SelectSeq(build_items(by_grant_keys(selHits), selHits, selQuery),
              LAMBDA it : it.best_score >= Base(MIN_SCORE_STRONG))

(* C23 (as stated): a surviving candidate of select_top_grants is in the    *)
(* open partition only if its grant is active and its deadline, when it has *)
(* one, is in the future; every other surviving candidate is in the closed  *)
(* partition.                                                               *)
C23_OpenOnlyIfActiveAndFuture ==
    selOp = "select_top_grants" =>
        LET open_grants == open_grants_of(surviving_items, 0)
            closed_grants == closed_grants_of(surviving_items, 0)
        IN \A i \in 1..Len(surviving_items) :
              LET it == surviving_items[i]
                  qualifies == /\ it.status = "open"
                               /\ it.closes_at # "none" => it.closes_at = "future"
              IN /\ it \in Range(open_grants) => qualifies
                 /\ ~qualifies => it \in Range(closed_grants)

(* C24 (as stated): select_top_grants shortlists no candidate whose score   *)
(* is below MIN_SCORE_WEAK and discards no candidate at or above it because *)
(* of its score: when at most three candidates reach MIN_SCORE_WEAK, all of *)
(* them are shortlisted.                                                    *)
C24_DiscardsBelowWeakOnly ==
    selOp = "select_top_grants" =>
        LET items == build_items(by_grant_keys(selHits), selHits, selQuery)
            weak == SelectSeq(items, LAMBDA it : it.best_score >= Base(MIN_SCORE_WEAK))
        IN /\ \A i \in 1..Len(selOut) : selOut[i].best_score >= Base(MIN_SCORE_WEAK)
           /\ Len(weak) <= 3 => \A i \in 1..Len(weak) : weak[i] \in Range(selOut)

(* the shortlist is its open selections followed by its closed ones *)
OpenThenClosed(list) ==
    \A i, j \in 1..Len(list) : (i < j /\ is_open(list[j])) => is_open(list[i])

(* C25: in the shortlist of select_top_grants and of                        *)
(* improved_group_results_by_grant every open selection precedes every      *)
(* closed one, the two partitions are sorted by score, best first, and a    *)
(* closed candidate is in the shortlist only when every open candidate that *)
(* passed the threshold is, within the maximum M.                           *)
C25_OpenBeforeClosed ==
    /\ selOp = "select_top_grants" =>
          LET open_grants == open_grants_of(surviving_items, 0)
              closed_grants == closed_grants_of(surviving_items, 0)
          IN /\ NonIncreasing(open_grants, "best_score")
             /\ NonIncreasing(closed_grants, "best_score")
             /\ OpenThenClosed(selOut)
             /\ Len(selOut) <= MAX_GRANTS
             /\ (\E i \in 1..Len(selOut) : ~is_open(selOut[i])) =>
                   \A i \in 1..Len(open_grants) : open_grants[i] \in Range(selOut)
    /\ (selOp = "improved_group_results_by_grant" /\ ~selOut.raised) =>
          /\ OpenThenClosed(selOut.value)
          /\ Len(selOut.value) <= selN
          /\ (\E i \in 1..Len(selOut.value) : ~is_open(selOut.value[i])) =>
                \A i \in 1..Len(selHits) :
                   LET g == selHits[i].grant_id
                   IN (/\ HasGrant(g)
                       /\ \E it \in Range(build_items(by_grant_keys(selHits), selHits, selQuery)) :
                             /\ it.grant_id = g /\ is_open(it) /\ ~is_smart_grant(it)
                             /\ it.best_score >= Base(MIN_SCORE_THRESHOLD))
                      => \E k \in 1..Len(selOut.value) : selOut.value[k].grant_id = g

(* an open and a closed candidate passed: the open one comes first *)
C25_Witness ==
    /\ selOp = "select_top_grants"
    /\ Len(selOut) = 2
    /\ is_open(selOut[1])
    /\ ~is_open(selOut[2])
    /\ selOut[2].best_score > selOut[1].best_score

(* improved_group_results_by_grant filled the slot after its one open pick  *)
(* with a closed candidate                                                  *)
C25_WitnessFill ==
    /\ selOp = "improved_group_results_by_grant"
    /\ ~selOut.raised
    /\ Len(selOut.value) = 2
    /\ is_open(selOut.value[1])
    /\ ~is_open(selOut.value[2])

-----------------------------------------------------------------------------
(* The greedy selection of add_diversity_to_grants, pick by pick.           *)

(* the adjusted score of a candidate against the items picked before it:    *)
(* its score minus, for each of them, 0.5 * weight for the same source and  *)
(* 0.3 * weight for a title-word overlap above one half of its own words    *)
claimed_adjusted(candidate, picked, weight) ==
    candidate.boosted_score
    - Cardinality({j \in 1..Len(picked) : picked[j].source = candidate.source})
         * weight * 3125
    - Cardinality({j \in 1..Len(picked) :
                      2 * Cardinality(title_words(candidate.title)
                                      \cap title_words(picked[j].title))
                         > Max(Cardinality(title_words(candidate.title)), 1)})
         * weight * 1875

(* C26 (as stated): for every M and every weight in [0, 1] the first pick   *)
(* of add_diversity_to_grants is the first candidate of the sorted input,   *)
(* and each later pick is a remaining candidate whose adjusted score is     *)
(* maximal among the remaining ones, the earliest in input order among      *)
(* equals; picking goes on until M items are chosen or none remains.        *)
C26_GreedyPicksMaxAdjusted ==
    (selOp = "add_diversity_to_grants" /\ ~selOut.raised) =>
        LET c == diversity_candidates(selHits, selQuery)
            out == selOut.value
            at(k) == CHOOSE i \in 1..Len(c) : c[i] = out[k]
        IN /\ Len(out) = Min(selN, Len(c))
           /\ \A k \in 1..Len(out) : out[k] \in Range(c)
           /\ Len(out) >= 1 => out[1] = c[1]
           /\ \A k \in 2..Len(out) :
                 LET picked == SubSeq(out, 1, k - 1)
                     remaining == {i \in 1..Len(c) : c[i] \notin Range(picked)}
                     adj(i) == claimed_adjusted(c[i], picked, selWeight)
                 IN /\ at(k) \in remaining
                    /\ \A i \in remaining : adj(i) <= adj(at(k))
                    /\ \A i \in remaining : i < at(k) => adj(i) < adj(at(k))

-----------------------------------------------------------------------------
(* C27 (as stated): on a turn that is not a followup, for a query with a    *)
(* programme-name keyword and a final list holding at least one grant whose *)
(* title contains it, every card returned has a title containing the        *)
(* keyword and every such grant of the final list is a card.                *)
C27_NameQueryCardsAllMatch ==
    (/\ turn.op = "search"
     /\ turn.intent # "followup"
     /\ turn.grant_name_query # <<>>
     /\ \E i \in 1..Len(turn.all_grants) :
           title_has(turn.all_grants[i].title, turn.grant_name_query[1])) =>
        /\ \A i \in 1..Len(turn.grants) :
              title_has(turn.grants[i].title, turn.grant_name_query[1])
        /\ \A i \in 1..Len(turn.all_grants) :
              title_has(turn.all_grants[i].title, turn.grant_name_query[1])
                 => turn.all_grants[i] \in Range(turn.grants)

(* C28: on a followup turn _semantic_search is called, with top_k 3, exactly *)
(* when fewer than 3 followup-sourced grants were found and an index is      *)
(* configured; the candidate list is the followup-sourced grants, all of     *)
(* them and in their order, followed by what that call returned.             *)
C28_FollowupTopUp ==
    (turn.op = "search" /\ turn.intent = "followup") =>
        /\ turn.semantic_top_k = (IF Len(turn.sourced) < 3 /\ vector_index THEN 3 ELSE 0)
        /\ turn.semantic_top_k = 0 => turn.topped_up = <<>>
        /\ Len(turn.topped_up) <= 3
        /\ Len(turn.candidates) = Len(turn.sourced) + Len(turn.topped_up)
        /\ \A i \in 1..Len(turn.sourced) : turn.candidates[i] = turn.sourced[i]
        /\ \A i \in 1..Len(turn.topped_up) :
              turn.candidates[Len(turn.sourced) + i] = turn.topped_up[i]

(* a followup turn found fewer than 3 tracked grants and was topped up      *)
(* behind them                                                              *)
C28_Witness ==
    /\ turn.op = "search"
    /\ turn.intent = "followup"
    /\ turn.sourced # <<>>
    /\ turn.topped_up # <<>>
    /\ turn.last_grant_ids # <<>>

(* a followup turn that found 3 or more grants was not topped up although   *)
(* an index is configured                                                   *)
C28_WitnessEnough ==
    /\ turn.op = "search"
    /\ turn.intent = "followup"
    /\ vector_index
    /\ Len(turn.sourced) >= 3
    /\ turn.semantic_top_k = 0

(* C29 (as stated): after a search() turn the session's stored last intent  *)
(* is the intent resolved for the turn, and the context of the next turn of *)
(* the session shows the intent of the turn before it as last_intent.       *)
C29_LastIntentStored ==
    turn.op = "search" =>
        /\ conversations[turn.session_id].last_query_intent = turn.intent
        /\ Len(turn.context.recent_messages) >= 2 => turn.context.last_intent # NoIntent

-----------------------------------------------------------------------------
(* POST /chat/stream (chat_with_grants_stream): the events of one response. *)
(* streamPc is the position of the handler and of the generator it returns, *)
(* streamSent the events yielded so far, streamProduced the chunks that     *)
(* chat_stream has yielded, streamHits the result of vector_index.query.    *)

MaxChunks == 3

ADVICE == "Here is my advice. "
JSON_RECS == "{\"recommended_grants\": [{\"grant_id\": \"g1\"}, {\"grant_id\": \"g2\"}, {\"grant_id\": \"g3\"}, {\"grant_id\": \"gx\"}, {\"grant_id\": \"g5\"}, {\"grant_id\": \"g6\"}]}"
JSON_STRINGS == "{\"recommended_grants\": [\"g1\"]}"

Chunks == {ADVICE, JSON_RECS, JSON_STRINGS}

ASK_SOMETHING == "Ask me something about funding."
NOT_CONFIGURED == "GPT client not configured. Set OPENAI_API_KEY environment variable."
SEARCH_FAILED == "Search failed unexpectedly. Try rephrasing or asking again in a moment."
NO_RESULTS == "I don't see anything in the current Innovate UK or NIHR data that clearly matches that."
APOLOGY == "I found relevant grants, but the AI layer failed while drafting the explanation."

token_event(content) == [type |-> "token", content |-> content]
grants_event(grants) == [type |-> "grants", grants |-> grants]
done_event == [type |-> "done"]

(* mutant: the tokens are kept back until the stream has ended *)
yield_token_buffered(sent, chunk) == sent

(* the yield inside the chat_stream loop *)
yield_token(sent, chunk) == Append(sent, token_event(chunk))

(* json.loads(full_response) and data.get("recommended_grants", []) or [],  *)
(* inside the inner try: full_response is the concatenation of the chunks,  *)
(* which is a JSON document only when it is one JSON chunk; otherwise the   *)
(* top 3 of the selected grants                                             *)
recs_of(full_response, grants) ==
    IF full_response = <<JSON_RECS>>
    THEN [dicts |-> TRUE,
          recs |-> <<[grant_id |-> "g1"], [grant_id |-> "g2"], [grant_id |-> "g3"],
                     [grant_id |-> UnknownId], [grant_id |-> "g5"], [grant_id |-> "g6"]>>]
    ELSE IF full_response = <<JSON_STRINGS>>
    THEN [dicts |-> FALSE, recs |-> <<"g1">>]
    ELSE [dicts |-> TRUE,
          recs |-> [i \in 1..Min(3, Len(grants)) |-> [grant_id |-> grants[i].grant_id]]]

(* one entry of grant_refs: enriched from the selected grants, or bare *)
grant_ref(rec, grants) ==
    LET found == SelectSeq(grants, LAMBDA g : g.grant_id = rec.grant_id)
    IN IF found # <<>>
       THEN [grant_id |-> rec.grant_id, title |-> found[Len(found)].title,
             is_active |-> (found[Len(found)].status = "open"),
             score |-> found[Len(found)].best_score]
       ELSE [grant_id |-> rec.grant_id, title |-> <<>>, is_active |-> TRUE, score |-> 0]

(* the part of generate() after the chat_stream loop: raises when a         *)
(* recommendation is not a dict (rec.get), else the grants event payload    *)
post_process(full_response, grants) ==
    LET parsed == recs_of(full_response, grants)
    IN IF ~parsed.dicts THEN [raises |-> TRUE, grant_refs |-> <<>>]
       ELSE [raises |-> FALSE,
             grant_refs |-> Take([i \in 1..Len(parsed.recs) |-> grant_ref(parsed.recs[i], grants)], 5)]

StreamQueries == {<<>>, Q_ai}

StreamHitLists ==
    { <<>>,
      <<Hit("g1", 60), Hit("g2", 58)>>,
      <<Hit("g7", 30)>> }

StreamInit ==
    /\ StreamIdle
    /\ SelIdle
    /\ EligIdle
    /\ NameIdle
    /\ RaceIdle
    /\ SearchIdle

(* the body of chat_with_grants_stream up to "return StreamingResponse" *)
StreamRequest ==
    /\ streamPc = "idle"
    /\ \E query \in StreamQueries, client_ok \in BOOLEAN, query_ok \in BOOLEAN, hits \in StreamHitLists :
          /\ streamOutcome' = (IF query = <<>> THEN "empty_query"
                               ELSE IF ~client_ok THEN "client_failed"
                               ELSE IF ~query_ok THEN "search_failed"
                               ELSE IF hits = <<>> THEN "no_results"
                               ELSE "generating")
          /\ streamHits' = (IF query # <<>> /\ client_ok /\ query_ok THEN hits ELSE <<>>)
          /\ streamPc' = (IF streamOutcome' = "generating" THEN "generate" ELSE "short")
    /\ UNCHANGED <<streamSent, streamProduced, selVars, eligVars, nameVars, searchVars, raceVars>>

(* first yield of empty_generator / error_generator / no_results_generator *)
StreamShortToken ==
    /\ streamPc = "short"
    /\ streamSent' = Append(streamSent,
          token_event(CASE streamOutcome = "empty_query" -> ASK_SOMETHING
                        [] streamOutcome = "client_failed" -> NOT_CONFIGURED
                        [] streamOutcome = "search_failed" -> SEARCH_FAILED
                        [] OTHER -> NO_RESULTS))
    /\ streamPc' = "finish"
    /\ UNCHANGED <<streamProduced, streamHits, streamOutcome, selVars, eligVars, nameVars, searchVars, raceVars>>

(* generate(): steps 1 to 3 before the loop; an exception goes to the except *)
StreamSetup ==
    /\ streamPc = "generate"
    /\ \E raises \in BOOLEAN :
          /\ streamPc' = (IF raises THEN "failed" ELSE "streaming")
          /\ streamOutcome' = (IF raises THEN "setup_failed" ELSE streamOutcome)
    /\ UNCHANGED <<streamSent, streamProduced, streamHits, selVars, eligVars, nameVars, searchVars, raceVars>>

(* chat_stream yields the next chunk *)
StreamProduce ==
    /\ streamPc = "streaming"
    /\ Len(streamProduced) < MaxChunks
    /\ \E chunk \in Chunks : streamProduced' = Append(streamProduced, chunk)
    /\ streamPc' = "chunk"
    /\ UNCHANGED <<streamSent, streamHits, streamOutcome, selVars, eligVars, nameVars, searchVars, raceVars>>

(* the loop body: full_response += chunk; yield the token event *)
StreamSendToken ==
    /\ streamPc = "chunk"
    /\ streamSent' = yield_token(streamSent, streamProduced[Len(streamProduced)])
    /\ streamPc' = "streaming"
    /\ UNCHANGED <<streamProduced, streamHits, streamOutcome, selVars, eligVars, nameVars, searchVars, raceVars>>

(* chat_stream raises instead of yielding the next chunk *)
StreamFail ==
    /\ streamPc = "streaming"
    /\ streamPc' = "failed"
    /\ streamOutcome' = "llm_failed"
    /\ UNCHANGED <<streamSent, streamProduced, streamHits, selVars, eligVars, nameVars, searchVars, raceVars>>

(* chat_stream is exhausted: the recommendations are built and the grants   *)
(* event is yielded, or an exception goes to the except                     *)
StreamEnd ==
    /\ streamPc = "streaming"
    /\ LET post == post_process(streamProduced, select_top_grants(streamHits, Q_ai))
       IN IF post.raises
          THEN /\ streamPc' = "failed"
               /\ streamOutcome' = "post_failed"
               /\ UNCHANGED streamSent
          ELSE /\ streamPc' = "finish"
               /\ streamOutcome' = "success"
               /\ streamSent' = Append(streamSent, grants_event(post.grant_refs))
    /\ UNCHANGED <<streamProduced, streamHits, selVars, eligVars, nameVars, searchVars, raceVars>>

(* except Exception: the apology token *)
StreamApology ==
    /\ streamPc = "failed"
    /\ streamSent' = Append(streamSent, token_event(APOLOGY))
    /\ streamPc' = "finish"
    /\ UNCHANGED <<streamProduced, streamHits, streamOutcome, selVars, eligVars, nameVars, searchVars, raceVars>>

(* the last yield of every generator *)
StreamDone ==
    /\ streamPc = "finish"
    /\ streamSent' = Append(streamSent, done_event)
    /\ streamPc' = "closed"
    /\ UNCHANGED <<streamProduced, streamHits, streamOutcome, selVars, eligVars, nameVars, searchVars, raceVars>>

StreamNext ==
    \/ StreamRequest
    \/ StreamShortToken
    \/ StreamSetup
    \/ StreamProduce
    \/ StreamSendToken
    \/ StreamFail
    \/ StreamEnd
    \/ StreamApology
    \/ StreamDone

(* the server keeps iterating the generator, and the chat_stream iterator   *)
(* yields, ends or raises                                                   *)
SpecStream == StreamInit /\ [][StreamNext]_vars /\ WF_vars(StreamNext)

(* the events are tokens, then at most one grants event, then at most one   *)
(* done event                                                               *)
stream_shape(sent) ==
    \A i \in 1..Len(sent) :
        /\ sent[i].type = "done" => i = Len(sent)
        /\ sent[i].type = "grants" =>
              /\ \A j \in 1..(i - 1) : sent[j].type = "token"
              /\ i < Len(sent) => sent[i + 1].type = "done"
        /\ sent[i].type = "token" => \A j \in 1..(i - 1) : sent[j].type = "token"

has_event(sent, type) == \E i \in 1..Len(sent) : sent[i].type = type

(* the contents of the token events, in order *)
token_contents(sent) ==
    LET tokens == SelectSeq(sent, LAMBDA e : e.type = "token")
    IN [i \in 1..Len(tokens) |-> tokens[i].content]

stream_safe ==
    /\ stream_shape(streamSent)
    /\ streamPc = "closed" <=> has_event(streamSent, "done")
    /\ has_event(streamSent, "grants") <=>
          (streamOutcome = "success" /\ streamPc \in {"finish", "closed"})
    /\ has_event(streamSent, "grants") =>
          Len(streamSent[Len(token_contents(streamSent)) + 1].grants) <= 5
    /\ (streamOutcome = "llm_failed" /\ streamPc = "failed") =>
          token_contents(streamSent) = streamProduced
    /\ (streamOutcome = "llm_failed" /\ streamPc \in {"finish", "closed"}) =>
          token_contents(streamSent) = Append(streamProduced, APOLOGY)

(* C21: the events of a /chat/stream response are token events, then one    *)
(* grants event exactly when generation succeeded, then one done event,     *)
(* which is last and always comes; when chat_stream fails midway the        *)
(* tokens sent before the apology token are the chunks it had produced.     *)
C21_StreamEvents == []stream_safe /\ ((streamPc # "idle") ~> (streamPc = "closed"))

(* chat_stream failed after two chunks, the response was closed *)
C21_Witness ==
    /\ streamPc = "closed"
    /\ streamOutcome = "llm_failed"
    /\ Len(streamProduced) = 2

(* a successful response with tokens, a cut grants event and done *)
C21_WitnessSuccess ==
    /\ streamPc = "closed"
    /\ streamOutcome = "success"
    /\ streamProduced = <<JSON_RECS>>
    /\ Len(streamSent) = 3
    /\ Len(streamSent[2].grants) = 5

(* the recommendations could not be read after the stream had ended *)
C21_WitnessPostFailed ==
    /\ streamPc = "closed"
    /\ streamOutcome = "post_failed"

-----------------------------------------------------------------------------
(* Two search() calls for one session that overlap.  A call runs from one   *)
(* external call to the next without interruption: it reads the context,    *)
(* waits for the profile extractor, merges and stores the profile, waits    *)
(* for the classifier, the retriever and the advice, then records its two   *)
(* messages.  raceCalls holds the locals of the two calls, raceStart the    *)
(* sessions before either call, raceConversations the sessions now.         *)

RaceSession == "s1"
RaceTopK == 10
RaceClassified == [intent |-> "discovery", referenced_grants |-> <<>>]
RaceRanking == [raises |-> FALSE, hits |-> <<Hit("g1", 60), Hit("g7", 50), Hit(UnknownId, 35)>>]

RaceQueries == {Q_more, Q_nihr}

(* the sessions as one whole call of search() leaves them *)
serial_search(convs, query, extracted) ==
    LET src == search_sources(convs, RaceSession, query, RaceTopK, FALSE, <<>>,
                              extracted, RaceClassified, TRUE, RaceRanking)
    IN { search_result(src, RaceSession, query, RaceTopK, sem).conversations :
            sem \in (IF src.semantic_top_k = 0 THEN {<<>>}
                     ELSE semantic_search_results(TRUE, RaceRanking, src.semantic_top_k, FALSE)) }

(* the sessions before the two calls: none, or one earlier turn *)
RaceStores ==
    {<<>>} \cup serial_search(<<>>, Q_nihr,
                              [EmptyProfile EXCEPT !.organization_type = <<<<"S","M","E">>>>])

new_call(query, extracted) ==
    [pc |-> "start", query |-> query, extracted |-> extracted,
     context |-> get_context(<<>>, RaceSession), seen_messages |-> 0,
     existing_profile |-> EmptyProfile, updated_profile |-> EmptyProfile,
     intent |-> NoIntent, grant_ids |-> <<>>]

RaceInit ==
    /\ raceStart \in RaceStores
    /\ raceConversations = raceStart
    /\ raceCalls \in {<<new_call(q1, e1), new_call(q2, e2)>> :
                         q1 \in RaceQueries, q2 \in RaceQueries,
                         e1 \in SessionExtractions, e2 \in SessionExtractions}
    /\ SelIdle
    /\ EligIdle
    /\ NameIdle
    /\ StreamIdle
    /\ SearchIdle

(* mutant: the profile is copied when the context is read *)
existing_profile_of_context(convs, session_id, context) == context.user_profile

(* context["user_profile"] is the stored dict itself, not a copy: what      *)
(* existing_profile.copy() copies is the profile as stored at that moment   *)
existing_profile_of(convs, session_id, context) == convs[session_id].user_profile

(* step 1: get_context, which creates a missing session *)
RaceRead(i) ==
    /\ raceCalls[i].pc = "start"
    /\ raceConversations' = initialize_session(raceConversations, RaceSession)
    /\ raceCalls' = [raceCalls EXCEPT
          ![i].pc = "extracting",
          ![i].context = get_context(raceConversations, RaceSession),
          ![i].seen_messages = Len(messages_of(raceConversations, RaceSession))]
    /\ UNCHANGED <<raceStart, selVars, eligVars, nameVars, searchVars, streamVars>>

(* step 2 after the extractor has answered: the merge into a copy of the    *)
(* profile and extract_user_profile                                         *)
RaceWriteProfile(i) ==
    /\ raceCalls[i].pc = "extracting"
    /\ LET existing == existing_profile_of(raceConversations, RaceSession, raceCalls[i].context)
           updated_profile == extract_from_message(raceCalls[i].extracted, existing)
       IN /\ raceConversations' = extract_user_profile(raceConversations, RaceSession, updated_profile)
          /\ raceCalls' = [raceCalls EXCEPT ![i].pc = "classifying",
                                            ![i].existing_profile = existing,
                                            ![i].updated_profile = updated_profile]
    /\ UNCHANGED <<raceStart, selVars, eligVars, nameVars, searchVars, streamVars>>

(* steps 3 to 6 after the classifier has answered: the overrides, the       *)
(* grants of the intent (get_last_grants reads the messages as they are     *)
(* now), the filters and the ranking                                        *)
RaceRetrieve(i) ==
    /\ raceCalls[i].pc = "classifying"
    /\ LET c == raceCalls[i]
           src == search_sources_from(c.context, c.updated_profile, raceConversations,
                                      RaceSession, c.query, RaceTopK, FALSE, <<>>,
                                      c.extracted, RaceClassified, TRUE, RaceRanking)
       IN \E sem \in (IF src.semantic_top_k = 0 THEN {<<>>}
                      ELSE semantic_search_results(TRUE, RaceRanking, src.semantic_top_k, FALSE)) :
             LET out == search_result(src, RaceSession, c.query, RaceTopK, sem)
             IN raceCalls' = [raceCalls EXCEPT ![i].pc = "advising",
                                               ![i].intent = out.turn.intent,
                                               ![i].grant_ids = recorded_ids(out.turn.all_grants)]
    /\ UNCHANGED <<raceStart, raceConversations, selVars, eligVars, nameVars, searchVars, streamVars>>

(* step 8 after the advice has been generated: the two add_message calls *)
RaceRecord(i) ==
    /\ raceCalls[i].pc = "advising"
    /\ raceConversations' =
          add_message(add_message(raceConversations, RaceSession, "user", raceCalls[i].query, <<>>),
                      RaceSession, "assistant", Response, raceCalls[i].grant_ids)
    /\ raceCalls' = [raceCalls EXCEPT ![i].pc = "returned"]
    /\ UNCHANGED <<raceStart, selVars, eligVars, nameVars, searchVars, streamVars>>

RaceNext ==
    \E i \in {1, 2} :
        \/ RaceRead(i)
        \/ RaceWriteProfile(i)
        \/ RaceRetrieve(i)
        \/ RaceRecord(i)

SpecRace == RaceInit /\ [][RaceNext]_vars

both_returned == \A i \in {1, 2} : raceCalls[i].pc = "returned"

(* call i ran while call j was between its first read and its last write *)
overlapped ==
    \A i \in {1, 2} :
        raceCalls[i].seen_messages = Len(messages_of(raceStart, RaceSession))

(* the sessions after the two calls one after the other, i first *)
serial_outcomes(i, j) ==
    UNION { serial_search(s, raceCalls[j].query, raceCalls[j].extracted) :
               s \in serial_search(raceStart, raceCalls[i].query, raceCalls[i].extracted) }

(* C30 (as stated): when the two calls have returned, the sessions are as   *)
(* one of the two serial orders leaves them.                                *)
C30_EqualsSerialOrder ==
    both_returned =>
        raceConversations \in serial_outcomes(1, 2) \cup serial_outcomes(2, 1)

(* the two messages call i records *)
call_messages(i) ==
    <<[role |-> "user", content |-> raceCalls[i].query, grants_mentioned |-> <<>>],
      [role |-> "assistant", content |-> Response, grants_mentioned |-> raceCalls[i].grant_ids]>>

has_written(i) == raceCalls[i].pc \in {"classifying", "advising", "returned"}

stored_race_profile ==
    IF RaceSession \in DOMAIN raceConversations
    THEN raceConversations[RaceSession].user_profile ELSE EmptyProfile

start_profile ==
    IF RaceSession \in DOMAIN raceStart
    THEN raceStart[RaceSession].user_profile ELSE EmptyProfile

(* C30 (amended): no message and no discussed grant id is lost, the two     *)
(* messages of a call are next to each other, and each call merges what it  *)
(* extracted into the profile as stored at that moment, so the profile is   *)
(* that of the calls in the order of their profile writes; calls that do    *)
(* not overlap leave the sessions as the serial order does.                 *)
C30_NoLostUpdate ==
    /\ both_returned =>
          \E i, j \in {1, 2} :
             /\ i # j
             /\ messages_of(raceConversations, RaceSession) =
                   messages_of(raceStart, RaceSession) \o call_messages(i) \o call_messages(j)
             /\ discussed_of(raceConversations, RaceSession) =
                   discussed_of(raceStart, RaceSession) \o raceCalls[i].grant_ids
                                                        \o raceCalls[j].grant_ids
    /\ \A i \in {1, 2} :
          has_written(i) =>
             raceCalls[i].updated_profile =
                extract_from_message(raceCalls[i].extracted, raceCalls[i].existing_profile)
    /\ (has_written(1) /\ has_written(2)) =>
          \E i, j \in {1, 2} :
             /\ i # j
             /\ raceCalls[i].existing_profile = start_profile
             /\ raceCalls[j].existing_profile = raceCalls[i].updated_profile
             /\ stored_race_profile = raceCalls[j].updated_profile
    /\ \A i, j \in {1, 2} :
          (/\ i # j
           /\ both_returned
           /\ raceCalls[j].seen_messages = Len(messages_of(raceStart, RaceSession)) + 2) =>
              raceConversations \in serial_outcomes(i, j)

(* the calls overlapped, the profile was written in one order and the       *)
(* messages were recorded in the other, and the sessions are as neither     *)
(* serial order leaves them                                                 *)
C30_Witness ==
    /\ both_returned
    /\ overlapped
    /\ raceCalls[2].existing_profile = raceCalls[1].updated_profile
    /\ raceCalls[1].updated_profile # raceCalls[2].updated_profile
    /\ messages_of(raceConversations, RaceSession) =
          messages_of(raceStart, RaceSession) \o call_messages(2) \o call_messages(1)
    /\ raceConversations \notin serial_outcomes(1, 2) \cup serial_outcomes(2, 1)

(* one call ran after the other had returned *)
C30_WitnessSerial ==
    /\ both_returned
    /\ raceCalls[2].seen_messages = Len(messages_of(raceStart, RaceSession)) + 2
    /\ raceCalls[2].intent = "followup"

====
